---- MODULE Spec2Model ----
(***************************************************************************)
(* fast_matrix_market, Python layer (fast_matrix_market/__init__.py):      *)
(* reading Matrix Market files into coordinate triplets / dense arrays     *)
(* and writing matrices back, with symmetry generalization on read and     *)
(* lower-triangle reduction on write.                                      *)
(*                                                                         *)
(* Numbers.  TLC integers are 32 bits wide, the program's are 64 bits      *)
(* wide, so a 64-bit quantity is a tuple of four 16-bit limbs, most        *)
(* significant first.  Signed quantities are two's complement.  A          *)
(* floating-point component is held as the two's-complement word of its    *)
(* (integral) numeric value: the model only uses values on which float     *)
(* negation and addition are exact, and compares floats numerically        *)
(* (+0.0 and -0.0 are one value).  A matrix value is [re, im]; im is the   *)
(* zero word for the real dtypes.                                          *)
(***************************************************************************)
EXTENDS Integers, Sequences, FiniteSets, TLC

\* ------------------------------------------------------------------ bounds
\* longest body of a file / entry list of a caller's matrix
MaxNnz == 2
\* indices of the modelled entries are 0 .. MaxIdx-1
MaxIdx == 2

\* ------------------------------------------------------- 64-bit arithmetic
LimbBase == 2^16

W(n) == <<0, 0, 0, n>>

AddW(a, b) ==
    LET s4 == a[4] + b[4]
        s3 == a[3] + b[3] + (s4 \div LimbBase)
        s2 == a[2] + b[2] + (s3 \div LimbBase)
        s1 == a[1] + b[1] + (s2 \div LimbBase)
    IN  <<s1 % LimbBase, s2 % LimbBase, s3 % LimbBase, s4 % LimbBase>>

NotW(a) == <<LimbBase - 1 - a[1], LimbBase - 1 - a[2],
             LimbBase - 1 - a[3], LimbBase - 1 - a[4]>>

\* two's-complement negation, wrapping as a 64-bit multiply by -1 does
NegW(a) == AddW(NotW(a), W(1))

\* the word of a small integer, negative ones in two's complement
I(n) == IF n >= 0 THEN W(n) ELSE NegW(W(0 - n))

\* unsigned comparison of two words
LtW(a, b) ==
    \E k \in 1..4 : a[k] < b[k] /\ \A h \in 1..(k - 1) : a[h] = b[h]

GeW(a, b) == ~LtW(a, b)

\* the literal 2**31 of _read_body_coo
Two31 == <<0, 0, 2^15, 0>>

MinInt64 == <<2^15, 0, 0, 0>>

Num(re, im) == [re |-> I(re), im |-> I(im)]

\* ----------------------------------------------------------- enumerations
Symmetries == {"general", "symmetric", "skew-symmetric", "hermitian"}
Formats == {"array", "coordinate"}
\* the field tokens a parsed header can carry
HeaderFields == {"integer", "unsigned-integer", "real", "double", "complex", "pattern"}

\* ------------------------------------------------------- type resolution
_field_to_dtype ==
    [k \in {"integer", "unsigned-integer", "real", "complex", "pattern",
            "long-integer", "long-unsigned-integer", "long-real",
            "long-complex", "long-pattern"} |->
        CASE k = "integer" -> "int64"
          [] k = "unsigned-integer" -> "uint64"
          [] k = "real" -> "float64"
          [] k = "complex" -> "complex"
          [] k = "pattern" -> "float64"
          [] k = "long-integer" -> "int64"
          [] k = "long-unsigned-integer" -> "uint64"
          [] k = "long-real" -> "longdouble"
          [] k = "long-complex" -> "longcomplex"
          [] k = "long-pattern" -> "longdouble"]

\* dict.get(key): None for a key the table does not hold
field_to_dtype_get(key) ==
    IF key \in DOMAIN _field_to_dtype THEN _field_to_dtype[key] ELSE "None"

\* ("long-" if long_type else "") + field
LongKey(long_type, field) == IF long_type THEN "long-" \o field ELSE field

\* numpy's dtype of np.zeros(..., dtype=d): dtype=None is the default float64
NpZerosDtype(d) == IF d = "None" THEN "float64" ELSE d

ComplexDtypes == {"complex", "longcomplex"}

\* --------------------------------------------------------- Matrix Market file
\* the values a body line of each field can carry (pattern lines carry none:
\* the codec stores the placeholder 1)
FieldValues(field) ==
    CASE field = "integer" -> {[re |-> I(1), im |-> W(0)], [re |-> MinInt64, im |-> W(0)]}
      [] field = "unsigned-integer" -> {Num(1, 0), Num(3, 0)}
      [] field \in {"real", "double"} -> {Num(5, 0), Num(0 - 1, 0)}
      [] field = "complex" -> {Num(1, 2), Num(0, 0 - 1)}
      [] field = "pattern" -> {Num(1, 0)}

Indices == 0..(MaxIdx - 1)

\* body entries, 0-based as the codec stores them
Entries(field) == [i : Indices, j : Indices, v : FieldValues(field)]

\* coordinate bodies: any entries in any order, duplicates included
Bodies(field) == UNION {[1..n -> Entries(field)] : n \in 0..MaxNnz}

\* (rows, cols) of the modelled coordinate files: small, and around the
\* 2**31 boundary
FileShapes ==
    {<<W(MaxIdx), W(MaxIdx)>>,
     <<AddW(Two31, I(0 - 1)), AddW(Two31, I(0 - 1))>>,
     <<Two31, W(MaxIdx)>>,
     <<W(MaxIdx), Two31>>}

CoordinateFiles ==
    UNION {[format : {"coordinate"}, field : {fld}, symmetry : Symmetries,
            shape : FileShapes, body : Bodies(fld)] : fld \in HeaderFields}

\* the cells an array body lists, column by column: all of them, the lower
\* triangle under a symmetry, the strictly lower one when skew-symmetric
ArrayCellListed(symmetry, r, c) ==
    CASE symmetry = "general" -> TRUE
      [] symmetry = "skew-symmetric" -> r > c
      [] OTHER -> r >= c

RECURSIVE ArrayCells(_, _)
\* the (row, col) of the values of an array body from column-major cell n on
ArrayCells(symmetry, n) ==
    IF n > MaxIdx * MaxIdx THEN <<>>
    ELSE LET r == (n - 1) % MaxIdx
             c == (n - 1) \div MaxIdx
         IN  (IF ArrayCellListed(symmetry, r, c) THEN <<[i |-> r, j |-> c]>> ELSE <<>>)
             \o ArrayCells(symmetry, n + 1)

\* array bodies: one value per listed cell of a MaxIdx x MaxIdx matrix
ArrayBodies(field, symmetry) ==
    LET cells == ArrayCells(symmetry, 1)
    IN  {[k \in 1..Len(cells) |-> [i |-> cells[k].i, j |-> cells[k].j, v |-> vs[k]]] :
            vs \in [1..Len(cells) -> FieldValues(field)]}

\* array files carry values: the pattern field is for coordinate files only
ArrayFiles ==
    UNION {[format : {"array"}, field : {fld}, symmetry : {sym},
            shape : {<<W(MaxIdx), W(MaxIdx)>>}, body : ArrayBodies(fld, sym)] :
           fld \in HeaderFields \ {"pattern"}, sym \in Symmetries}

Files == CoordinateFiles \cup ArrayFiles

NoFile == [format |-> "none"]

\* cursor.header of a read cursor on file f; an array header's entry count
\* is rows * cols
Header(f) ==
    [format |-> f.format, field |-> f.field, symmetry |-> f.symmetry,
     shape |-> f.shape, nrows |-> f.shape[1], ncols |-> f.shape[2],
     nnz |-> IF f.format = "array" THEN W(MaxIdx * MaxIdx) ELSE W(Len(f.body))]

\* --------------------------------------------------------- in-memory matrix
NoMatrix ==
    [kind |-> "none", dtype |-> "None", i_dtype |-> "None", j_dtype |-> "None",
     shape |-> <<W(0), W(0)>>, i |-> <<>>, j |-> <<>>, data |-> <<>>]

\* ------------------------------------------------------------- numpy pieces
RECURSIVE BoolIndex(_, _)
\* a[mask]
BoolIndex(a, mask) ==
    IF Len(a) = 0 THEN <<>>
    ELSE (IF Head(mask) THEN <<Head(a)>> ELSE <<>>) \o BoolIndex(Tail(a), Tail(mask))

\* mutation of NotEqualMask: no entry is taken as off the diagonal
NotEqualMask_none(i, j) == [k \in 1..Len(i) |-> FALSE]

\* mutation of NotEqualMask: the diagonal is not masked out
NotEqualMask_all(i, j) == [k \in 1..Len(i) |-> TRUE]

\* i != j, elementwise
NotEqualMask(i, j) == [k \in 1..Len(i) |-> i[k] # j[k]]

\* mutation of TimesMinusOne: the mirrored values are not negated
TimesMinusOne_kept(v, dtype) == v

\* one element of  data *= -1  for a dtype that has negatives
TimesMinusOne(v, dtype) ==
    IF dtype \in ComplexDtypes
    THEN [re |-> NegW(v.re), im |-> NegW(v.im)]
    ELSE [re |-> NegW(v.re), im |-> v.im]

\* mutation of Conjugate: the mirrored values are not conjugated
Conjugate_dropped(v, dtype) == v

\* one element of  data.conjugate()
Conjugate(v, dtype) ==
    IF dtype \in ComplexDtypes THEN [re |-> v.re, im |-> NegW(v.im)] ELSE v

\* off_diagonal_data *= -1  on an unsigned array raises in numpy (the Python
\* int -1 has no uint64 value): UFuncTypeError up to numpy 1.x, OverflowError
\* from numpy 2
NegateUnsignedErrors == {"UFuncTypeError", "OverflowError"}

\* ------------------------------------------------------------ native codec
\* _core.read_body_coo(cursor, i, j, data): fills the three buffers, which
\* were allocated with header.nnz elements, with the body's entries in order
core_read_body_coo(f) ==
    [i |-> [k \in 1..Len(f.body) |-> f.body[k].i],
     j |-> [k \in 1..Len(f.body) |-> f.body[k].j],
     data |-> [k \in 1..Len(f.body) |-> f.body[k].v]]

\* ------------------------------------------------------------------- reads
\* mutation of Generalize: the mirrored entries keep (row, col) unswapped
Generalize_unswapped(p, symmetry, dtype) ==
    LET off_diagonal_mask == NotEqualMask(p.i, p.j)
    IN  [i |-> p.i \o BoolIndex(p.i, off_diagonal_mask),
         j |-> p.j \o BoolIndex(p.j, off_diagonal_mask),
         data |-> p.data \o BoolIndex(p.data, off_diagonal_mask)]

\* mutation of Generalize: data[off_diagonal_mask] is taken as a view, so that
\* the negation or conjugation reaches the parsed values as well
Generalize_inplace(p, symmetry, dtype) ==
    LET off_diagonal_mask == NotEqualMask(p.i, p.j)
        altered ==
            [k \in 1..Len(p.data) |->
                IF ~off_diagonal_mask[k] THEN p.data[k]
                ELSE IF symmetry = "skew-symmetric"
                THEN TimesMinusOne(p.data[k], dtype)
                ELSE IF symmetry = "hermitian"
                THEN Conjugate(p.data[k], dtype)
                ELSE p.data[k]]
    IN  [i |-> p.i \o BoolIndex(p.j, off_diagonal_mask),
         j |-> p.j \o BoolIndex(p.i, off_diagonal_mask),
         data |-> altered \o BoolIndex(altered, off_diagonal_mask)]

\* lines 112-125 of _read_body_coo: the symmetry generalization.
\* p = [i, j, data] as parsed; the result has the same three fields
Generalize(p, symmetry, dtype) ==
    LET off_diagonal_mask == NotEqualMask(p.i, p.j)
        off_diagonal_rows == BoolIndex(p.i, off_diagonal_mask)
        off_diagonal_cols == BoolIndex(p.j, off_diagonal_mask)
        masked == BoolIndex(p.data, off_diagonal_mask)
        off_diagonal_data ==
            IF symmetry = "skew-symmetric"
            THEN [k \in 1..Len(masked) |-> TimesMinusOne(masked[k], dtype)]
            ELSE IF symmetry = "hermitian"
            THEN [k \in 1..Len(masked) |-> Conjugate(masked[k], dtype)]
            ELSE masked
    IN  [i |-> p.i \o off_diagonal_cols,
         j |-> p.j \o off_diagonal_rows,
         data |-> p.data \o off_diagonal_data]

\* mutation of IndexDtype: > in place of >=
IndexDtype_strict(h) ==
    IF LtW(Two31, h.nrows) \/ LtW(Two31, h.ncols) THEN "int64" ELSE "int32"

\* the index dtype chosen at lines 101-104
IndexDtype(h) ==
    IF GeW(h.nrows, Two31) \/ GeW(h.ncols, Two31) THEN "int64" ELSE "int32"

\* the value dtype of the buffers allocated at lines 93 and 108
ReadDtype(h, long_type) ==
    NpZerosDtype(field_to_dtype_get(LongKey(long_type, h.field)))

\* does _read_body_coo raise (the in-place negation of unsigned data)
ReadBodyCooRaises(h, long_type, generalize_symmetry) ==
    /\ generalize_symmetry
    /\ h.symmetry = "skew-symmetric"
    /\ ReadDtype(h, long_type) = "uint64"

\* mutation of ShouldGeneralize: the symmetry is not looked at
ShouldGeneralize_any(generalize_symmetry, symmetry) == generalize_symmetry

\* the condition of line 112
ShouldGeneralize(generalize_symmetry, symmetry) ==
    generalize_symmetry /\ symmetry # "general"

\* the dtype of np.concatenate of two index arrays
ConcatDtype(a, b) == IF a = b THEN a ELSE "int64"

\* _read_body_coo when it returns: ((data, (i, j)), shape)
_read_body_coo(f, long_type, generalize_symmetry) ==
    LET h == Header(f)
        dtype == ReadDtype(h, long_type)
        index_dtype == IndexDtype(h)
        parsed == core_read_body_coo(f)
        general == ~ShouldGeneralize(generalize_symmetry, h.symmetry)
        out == IF general THEN parsed ELSE Generalize(parsed, h.symmetry, dtype)
    IN  [kind |-> "triplet", dtype |-> dtype,
         i_dtype |-> IF general THEN index_dtype ELSE ConcatDtype(index_dtype, index_dtype),
         j_dtype |-> IF general THEN index_dtype ELSE ConcatDtype(index_dtype, index_dtype),
         shape |-> h.shape, i |-> out.i, j |-> out.j, data |-> out.data]

\* componentwise sum of two matrix values
AddV(a, b) == [re |-> AddW(a.re, b.re), im |-> AddW(a.im, b.im)]

ZeroV == [re |-> W(0), im |-> W(0)]

RECURSIVE CellSum(_, _, _, _, _)
\* the logical value at (r, c) of the entries (i, j, data): duplicates add up
CellSum(i, j, data, r, c) ==
    IF Len(i) = 0 THEN ZeroV
    ELSE LET rest == CellSum(Tail(i), Tail(j), Tail(data), r, c)
         IN  IF Head(i) = r /\ Head(j) = c THEN AddV(Head(data), rest) ELSE rest

\* the n-th cell of the modelled corner, row-major
CornerRow(n) == (n - 1) \div MaxIdx
CornerCol(n) == (n - 1) % MaxIdx

RECURSIVE DenseCells(_, _, _, _)
\* the nonzero cells of the dense buffer that holds the sums of the entries
\* (i, j, data), from corner cell n on, as parallel sequences
DenseCells(i, j, data, n) ==
    IF n > MaxIdx * MaxIdx THEN [i |-> <<>>, j |-> <<>>, data |-> <<>>]
    ELSE LET rest == DenseCells(i, j, data, n + 1)
             v == CellSum(i, j, data, CornerRow(n), CornerCol(n))
         IN  IF v = ZeroV THEN rest
             ELSE [i |-> <<CornerRow(n)>> \o rest.i,
                   j |-> <<CornerCol(n)>> \o rest.j,
                   data |-> <<v>> \o rest.data]

\* _core.read_body_array(cursor, vals): adds every body entry into the dense
\* buffer; a symmetric, skew-symmetric or hermitian body is generalized by
\* the codec itself (dense arrays are always materialized fully)
core_read_body_array(f, dtype) ==
    LET parsed == core_read_body_coo(f)
        full == IF f.symmetry # "general"
                THEN Generalize(parsed, f.symmetry, dtype)
                ELSE parsed
    IN  DenseCells(full.i, full.j, full.data, 1)

\* _read_body_array: a dense array of header.shape
_read_body_array(f, long_type) ==
    LET h == Header(f)
        dtype == ReadDtype(h, long_type)
        vals == core_read_body_array(f, dtype)
    IN  [kind |-> "ndarray", dtype |-> dtype, i_dtype |-> "None", j_dtype |-> "None",
         shape |-> h.shape, i |-> vals.i, j |-> vals.j, data |-> vals.data]

\* coo_matrix(triplet, shape=shape) at line 380
coo_matrix(t) == [t EXCEPT !.kind = "coo"]

\* ------------------------------------------------------------------ writes
\* the symmetry arguments modelled for mmwrite: the AUTO default, None, the
\* four literals (one of them in another letter case), and one outside the
\* enumeration
SymmetryArgs ==
    {"AUTO", "None", "general", "symmetric", "Skew-Symmetric", "hermitian", "bogus"}

\* the symmetry arguments that name a symmetry
ExplicitSymmetryArgs == {"general", "symmetric", "Skew-Symmetric", "hermitian"}

\* the field arguments modelled for mmwrite (None: no conversion)
FieldArgs == {"None", "integer", "real", "pattern", "bogus"}

\* str.lower() on the strings modelled
Lower(s) ==
    CASE s = "Skew-Symmetric" -> "skew-symmetric"
      [] s = "Matrix" -> "matrix"
      [] s = "Vector" -> "vector"
      [] s = "Coordinate" -> "coordinate"
      [] s = "ARRAY" -> "array"
      [] s = "Real" -> "real"
      [] s = "Unsigned-Integer" -> "unsigned-integer"
      [] s = "Hermitian" -> "hermitian"
      [] OTHER -> s

\* mutation of _validate_symmetry: an unknown symmetry is written as general
_validate_symmetry_lenient(symmetry) ==
    IF symmetry = "None" THEN "general"
    ELSE IF Lower(symmetry) \notin Symmetries THEN "general"
    ELSE Lower(symmetry)

\* _validate_symmetry: the sanitized symmetry, or "ValueError"
_validate_symmetry(symmetry) ==
    IF symmetry = "None" THEN "general"
    ELSE IF Lower(symmetry) \notin Symmetries THEN "ValueError"
    ELSE Lower(symmetry)

SparseKinds == {"coo", "csr", "csc", "lil"}
\* mutation of CompressedKinds: csc is not taken as compressed
CompressedKinds_csr == {"csr"}

\* lines 446 and 458: the types with a specialized writer
CompressedKinds == {"csr", "csc"}
MatrixKinds == {"ndarray"} \cup SparseKinds

\* a value that is neither array-like nor a sparse matrix (a str, a dict)
UnknownValue ==
    [kind |-> "unknown", dtype |-> "None", i_dtype |-> "None", j_dtype |-> "None",
     shape |-> <<>>, i |-> <<>>, j |-> <<>>, data |-> <<>>]

\* hasattr(a, "shape")
HasShape(a) == a.kind # "unknown"

\* mutation of MaxShapeBelow100: <= in place of <
MaxShapeBelow100_inclusive(a) == LtW(a.shape[1], W(101)) /\ LtW(a.shape[2], W(101))

\* max(a.shape) < 100
MaxShapeBelow100(a) == LtW(a.shape[1], W(100)) /\ LtW(a.shape[2], W(100))

\* scipy.io._mmio.MMFile()._get_symmetry(a): the symmetry the full logical
\* matrix satisfies (cells outside the modelled corner are zero)
_get_symmetry(a) ==
    LET cell(r, c) == CellSum(a.i, a.j, a.data, r, c)
        issymm == \A r, c \in Indices : cell(r, c) = cell(c, r)
        isskew == \A r, c \in Indices :
                     IF r = c THEN cell(r, c) = ZeroV
                     ELSE cell(r, c) = TimesMinusOne(cell(c, r), "complex")
        isherm == /\ a.dtype \in ComplexDtypes
                  /\ \A r, c \in Indices : cell(r, c) = Conjugate(cell(c, r), a.dtype)
    IN  IF a.shape[1] # a.shape[2] THEN "general"
        ELSE IF issymm THEN "symmetric"
        ELSE IF isskew THEN "skew-symmetric"
        ELSE IF isherm THEN "hermitian"
        ELSE "general"

\* lines 407-411: the symmetry after the AUTO default is resolved
ResolveAuto(a, symmetry, always_find) ==
    IF symmetry = "AUTO"
    THEN (IF always_find \/ (HasShape(a) /\ MaxShapeBelow100(a))
          THEN "None" ELSE "general")
    ELSE symmetry

\* mutation of RunsDetection: the module flag alone forces the detection
RunsDetection_flag(a, symmetry, find_symmetry, always_find) ==
    always_find \/ ResolveAuto(a, symmetry, always_find) = "None" \/ find_symmetry

\* line 413: does mmwrite call the symmetry detection
RunsDetection(a, symmetry, find_symmetry, always_find) ==
    ResolveAuto(a, symmetry, always_find) = "None" \/ find_symmetry

\* lines 407-422: the symmetry handed to the header, or "ValueError".
\* available: whether scipy still has the private _get_symmetry
ResolveSymmetry(a, symmetry, find_symmetry, always_find, available) ==
    _validate_symmetry(
        IF RunsDetection(a, symmetry, find_symmetry, always_find)
        THEN (IF available /\ HasShape(a) THEN _get_symmetry(a) ELSE "general")
        ELSE ResolveAuto(a, symmetry, always_find))

\* mutation of AsDtype: the imaginary part is kept
AsDtype_kept(v, dtype) == v

\* np.asarray(data, dtype=dtype), elementwise: a real target drops the
\* imaginary part (numpy warns, it does not raise)
AsDtype(v, dtype) ==
    IF dtype \in ComplexDtypes THEN v ELSE [re |-> v.re, im |-> W(0)]

\* mutation of _apply_field: field pattern returns the data
_apply_field_keeps(data, data_dtype, field, no_pattern) ==
    IF field = "None" \/ field = "pattern"
    THEN [raised |-> "none", dtype |-> data_dtype, data |-> data]
    ELSE IF field_to_dtype_get(field) = "None"
    THEN [raised |-> "ValueError", dtype |-> data_dtype, data |-> data]
    ELSE [raised |-> "none", dtype |-> field_to_dtype_get(field),
          data |-> [k \in 1..Len(data) |-> AsDtype(data[k], field_to_dtype_get(field))]]

\* mutation of _apply_field: no_pattern is ignored
_apply_field_pattern(data, data_dtype, field, no_pattern) ==
    IF field = "None" THEN [raised |-> "none", dtype |-> data_dtype, data |-> data]
    ELSE IF field = "pattern"
    THEN [raised |-> "none", dtype |-> "float64", data |-> <<>>]
    ELSE IF field_to_dtype_get(field) = "None"
    THEN [raised |-> "ValueError", dtype |-> data_dtype, data |-> data]
    ELSE [raised |-> "none", dtype |-> field_to_dtype_get(field),
          data |-> [k \in 1..Len(data) |-> AsDtype(data[k], field_to_dtype_get(field))]]

\* _apply_field: [raised, dtype, data]
_apply_field(data, data_dtype, field, no_pattern) ==
    IF field = "None" THEN [raised |-> "none", dtype |-> data_dtype, data |-> data]
    ELSE IF field = "pattern"
    THEN (IF no_pattern
          THEN [raised |-> "none", dtype |-> data_dtype, data |-> data]
          ELSE [raised |-> "none", dtype |-> "float64", data |-> <<>>])
    ELSE IF field_to_dtype_get(field) = "None"
    THEN [raised |-> "ValueError", dtype |-> data_dtype, data |-> data]
    ELSE [raised |-> "none", dtype |-> field_to_dtype_get(field),
          data |-> [k \in 1..Len(data) |-> AsDtype(data[k], field_to_dtype_get(field))]]

\* mutation of GreaterEqualMask: > in place of >=
GreaterEqualMask_strict(row, col) == [k \in 1..Len(row) |-> row[k] > col[k]]

\* a.row >= a.col, elementwise
GreaterEqualMask(row, col) == [k \in 1..Len(row) |-> row[k] >= col[k]]

\* lines 470-475: the coo matrix of the entries on or below the diagonal
LowerTriangle(a) ==
    LET lower_triangle_mask == GreaterEqualMask(a.i, a.j)
    IN  [a EXCEPT !.kind = "coo",
                  !.i = BoolIndex(a.i, lower_triangle_mask),
                  !.j = BoolIndex(a.j, lower_triangle_mask),
                  !.data = BoolIndex(a.data, lower_triangle_mask)]

\* a.tocoo(): the entries in stored order
tocoo(a) == [a EXCEPT !.kind = "coo"]

NoEnc == [fn |-> "none"]

\* lines 425-491 of mmwrite, with the validated symmetry: the call the native
\* encoder receives, [fn |-> "none", raised |-> ...] when _apply_field raises
\* or the value is of no known matrix type.
\* For write_body_csc, (i, j) are the coordinates that the (indptr, indices)
\* pair handed over encodes.
WriteBody(a, symmetry, field) ==
    IF a.kind = "unknown" THEN [fn |-> "none", raised |-> "ValueError"]
    ELSE IF a.kind = "ndarray"
    THEN LET c == _apply_field(a.data, a.dtype, field, TRUE)
         IN  IF c.raised # "none" THEN [fn |-> "none", raised |-> c.raised]
             ELSE [fn |-> "write_body_array", raised |-> "none",
                   symmetry |-> symmetry, shape |-> a.shape, dtype |-> c.dtype,
                   i |-> a.i, j |-> a.j, data |-> c.data, is_csr |-> FALSE]
    ELSE LET reduced == IF symmetry # "general" THEN LowerTriangle(a) ELSE a
             is_compressed == symmetry = "general" /\ a.kind \in CompressedKinds
             b == IF is_compressed THEN reduced ELSE tocoo(reduced)
             c == _apply_field(b.data, b.dtype, field, FALSE)
         IN  IF c.raised # "none" THEN [fn |-> "none", raised |-> c.raised]
             ELSE [fn |-> IF is_compressed THEN "write_body_csc" ELSE "write_body_coo",
                   raised |-> "none",
                   symmetry |-> symmetry, shape |-> b.shape, dtype |-> c.dtype,
                   i |-> b.i, j |-> b.j, data |-> c.data,
                   is_csr |-> is_compressed /\ a.kind = "csr"]

\* ------------------------------------------------------ the caller's matrices
\* (rows, cols) of the matrices a caller builds: around the 100 of mmwrite
CallerShapes ==
    {<<W(99), W(99)>>, <<W(100), W(100)>>}

\* the header field whose values a dtype holds
DtypeField(dtype) ==
    CASE dtype = "int64" -> "integer"
      [] dtype = "float64" -> "real"
      [] dtype = "complex" -> "complex"

CallerDtypes == {"int64", "float64", "complex"}

\* the entry orders each representation can hold: coo any; csr row by row;
\* csc column by column; lil and ndarray one value per cell, row-major
StoredOrder(kind, b) ==
    \A k \in 1..(Len(b) - 1) :
        CASE kind = "coo" -> TRUE
          [] kind = "csr" -> b[k].i <= b[k + 1].i
          [] kind = "csc" -> b[k].j <= b[k + 1].j
          [] OTHER -> \/ b[k].i < b[k + 1].i
                      \/ b[k].i = b[k + 1].i /\ b[k].j < b[k + 1].j

MakeMatrix(kind, dtype, shape, b) ==
    [kind |-> kind, dtype |-> dtype,
     i_dtype |-> IF kind = "ndarray" THEN "None" ELSE "int32",
     j_dtype |-> IF kind = "ndarray" THEN "None" ELSE "int32",
     shape |-> shape,
     i |-> [k \in 1..Len(b) |-> b[k].i],
     j |-> [k \in 1..Len(b) |-> b[k].j],
     data |-> [k \in 1..Len(b) |-> b[k].v]]

CallerMatrices ==
    UNION {{MakeMatrix(kind, dtype, shape, b) :
                b \in {x \in Bodies(DtypeField(dtype)) : StoredOrder(kind, x)}} :
           kind \in MatrixKinds, dtype \in CallerDtypes, shape \in CallerShapes}

\* ------------------------------------------------------------ text and bytes
\* bound: the code points of a comment
MaxComment == 2

\* the code points modelled: newline, "a", and one outside ASCII (e acute)
CodePoints == {10, 97, 233}

RECURSIVE Encode(_, _)
\* str.encode(encoding): utf-8 takes two bytes for a code point from 128 to
\* 2047, latin-1 one byte for every code point below 256
Encode(encoding, chars) ==
    IF chars = <<>> THEN <<>>
    ELSE (IF encoding = "latin-1" \/ Head(chars) < 128
          THEN <<Head(chars)>>
          ELSE <<192 + (Head(chars) \div 64), 128 + (Head(chars) % 64)>>)
         \o Encode(encoding, Tail(chars))

RECURSIVE Decode(_, _)
\* bytes.decode(encoding) on a valid byte sequence
Decode(encoding, bytes) ==
    IF bytes = <<>> THEN <<>>
    ELSE IF encoding = "latin-1" \/ Head(bytes) < 128
    THEN <<Head(bytes)>> \o Decode(encoding, Tail(bytes))
    ELSE <<(Head(bytes) - 192) * 64 + (bytes[2] - 128)>>
         \o Decode(encoding, Tail(Tail(bytes)))

RECURSIVE ValidBytes(_, _)
\* whether a byte sequence decodes under the encoding
ValidBytes(encoding, bytes) ==
    IF bytes = <<>> THEN TRUE
    ELSE IF encoding = "latin-1" \/ Head(bytes) < 128
    THEN ValidBytes(encoding, Tail(bytes))
    ELSE /\ Head(bytes) >= 194 /\ Head(bytes) < 224
         /\ Len(bytes) >= 2
         /\ bytes[2] >= 128 /\ bytes[2] < 192
         /\ ValidBytes(encoding, Tail(Tail(bytes)))

RECURSIVE SplitLines(_)
\* the lines of a byte string: the pieces between its newlines
SplitLines(bytes) ==
    IF \A k \in 1..Len(bytes) : bytes[k] # 10 THEN <<bytes>>
    ELSE LET n == CHOOSE k \in 1..Len(bytes) :
                      bytes[k] = 10 /\ \A m \in 1..(k - 1) : bytes[m] # 10
         IN  <<SubSeq(bytes, 1, n - 1)>> \o SplitLines(SubSeq(bytes, n + 1, Len(bytes)))

RECURSIVE JoinLines(_)
\* the lines joined by newlines
JoinLines(lines) ==
    IF lines = <<>> THEN <<>>
    ELSE IF Len(lines) = 1 THEN lines[1]
    ELSE lines[1] \o <<10>> \o JoinLines(Tail(lines))

\* ------------------------------------------------------------ header object
Objects == {"matrix", "vector"}

EnumAttrs == {"object", "format", "field", "symmetry"}

\* the enumeration of each enum attribute of a header
HeaderEnum(attr) ==
    CASE attr = "object" -> Objects
      [] attr = "format" -> Formats
      [] attr = "field" -> HeaderFields
      [] attr = "symmetry" -> Symmetries

\* no header object (None)
NoHeader == [object |-> "none"]

\* mutation of header_set: the value is stored before it is validated
header_set_stored(h, attr, value) ==
    IF Lower(value) \in HeaderEnum(attr)
    THEN [raised |-> "none", h |-> [h EXCEPT ![attr] = Lower(value)]]
    ELSE [raised |-> "ValueError", h |-> [h EXCEPT ![attr] = value]]

\* mutation of header_set: the value is stored as given
header_set_verbatim(h, attr, value) ==
    IF Lower(value) \in HeaderEnum(attr)
    THEN [raised |-> "none", h |-> [h EXCEPT ![attr] = value]]
    ELSE [raised |-> "ValueError", h |-> h]

\* h.attr = value for an enum attribute: the value is compared without
\* regard to case and stored lowercase; any other value raises and leaves h
header_set(h, attr, value) ==
    IF Lower(value) \in HeaderEnum(attr)
    THEN [raised |-> "none", h |-> [h EXCEPT ![attr] = Lower(value)]]
    ELSE [raised |-> "ValueError", h |-> h]

\* a header object filled in: every enum value goes through its setter; the
\* comment is held as bytes
MakeHeader(object, format, field, symmetry, nrows, ncols, nnz, comment) ==
    LET h0 == [object |-> "matrix", format |-> "coordinate", field |-> "real",
               symmetry |-> "general", nrows |-> nrows, ncols |-> ncols,
               nnz |-> nnz, comment |-> comment]
        s1 == header_set(h0, "object", object)
        s2 == header_set(s1.h, "format", format)
        s3 == header_set(s2.h, "field", field)
        s4 == header_set(s3.h, "symmetry", symmetry)
    IN  IF \E x \in {s1, s2, s3, s4} : x.raised # "none"
        THEN [raised |-> "ValueError", h |-> NoHeader]
        ELSE [raised |-> "none", h |-> s4.h]

\* header(object=, format=, field=, symmetry=, shape=, nnz=, comment=): the
\* comment string is kept in utf-8
header(object, format, field, symmetry, nrows, ncols, nnz, comment) ==
    MakeHeader(object, format, field, symmetry, nrows, ncols, nnz,
               Encode("utf-8", comment))

\* ------------------------------------------------------------- header text
\* the header part of a Matrix Market text: the banner tokens, the comment
\* lines (bytes, without the "%" marker) and the tokens of the dimension line
NoText == [banner |-> <<>>, comment |-> <<>>, dims |-> <<>>]

\* rows * cols of an array header (modelled array shapes are far below 2**15)
EntryCount(nrows, ncols) == W(nrows[4] * ncols[4])

\* the text _core.write_header_only writes for h: canonical tokens, every
\* comment line behind its own marker, nnz on the dimension line of a
\* coordinate header only
Serialize(h) ==
    [banner |-> <<h.object, h.format, h.field, h.symmetry>>,
     comment |-> IF h.comment = <<>> THEN <<>> ELSE SplitLines(h.comment),
     dims |-> IF h.format = "array" THEN <<h.nrows, h.ncols>>
              ELSE <<h.nrows, h.ncols, h.nnz>>]

\* mutation of ParseInt64: a numeral that is too wide is cut to 64 bits
ParseInt64_wrapping(token) ==
    [raised |-> "none", value |-> SubSeq(token, Len(token) - 3, Len(token))]

\* the codec's parse of a dimension token, a numeral of four or more 16-bit
\* limbs, into a 64-bit signed integer: [raised, value]
ParseInt64(token) ==
    LET n == Len(token)
    IN  IF (\A k \in 1..(n - 4) : token[k] = 0) /\ token[n - 3] < 2^15
        THEN [raised |-> "none", value |-> SubSeq(token, n - 3, n)]
        ELSE [raised |-> "OverflowError", value |-> W(0)]

\* the header the codec parses from a text: [raised, h].  The banner is
\* parsed before the dimension line.
ParseHeader(text) ==
    LET dims == [k \in 1..Len(text.dims) |-> ParseInt64(text.dims[k])]
        made == MakeHeader(text.banner[1], text.banner[2], text.banner[3],
                           text.banner[4], dims[1].value, dims[2].value,
                           IF Lower(text.banner[2]) = "array"
                           THEN EntryCount(dims[1].value, dims[2].value)
                           ELSE dims[3].value,
                           JoinLines(text.comment))
    IN  IF made.raised # "none" THEN made
        ELSE IF \E k \in 1..Len(dims) : dims[k].raised # "none"
        THEN [raised |-> "OverflowError", h |-> NoHeader]
        ELSE made

\* the header text of the matrix file f with the comment bytes given
FileText(f, bytes) ==
    [banner |-> <<"matrix", f.format, f.field, f.symmetry>>,
     comment |-> IF bytes = <<>> THEN <<>> ELSE SplitLines(bytes),
     dims |-> IF f.format = "array" THEN <<f.shape[1], f.shape[2]>>
              ELSE <<f.shape[1], f.shape[2], W(Len(f.body))>>]

\* ------------------------------------------------------- sources and targets
\* what a caller passes as source or target: a plain path, a path ending in
\* .gz or .bz2, a binary stream, a text stream, or an object that is neither
\* a path nor a stream
IoKinds == {"path", "gz", "bz2", "binary", "text", "other"}
PathKinds == {"path", "gz", "bz2"}

\* text_io_buffer.encoding: None for a StringIO
TextEncodings == {"None", "utf-8", "latin-1"}

\* the encoding under which the characters of a text stream stand for its
\* content (a StringIO holds the characters themselves: utf-8)
StreamEncoding(stream) ==
    IF stream.encoding = "None" THEN "utf-8" ELSE stream.encoding

\* raw.read() of a text stream: the characters of every comment line
TextRead(stream) ==
    [stream.content EXCEPT
        !.comment = [k \in 1..Len(stream.content.comment) |->
                        Decode(StreamEncoding(stream), stream.content.comment[k])]]

\* line 56: self.encoding = encoding or text_io_buffer.encoding or 'utf-8'
WrapperEncoding(text_io_buffer) ==
    IF text_io_buffer.encoding = "None" THEN "utf-8" ELSE text_io_buffer.encoding

\* _TextToBytesWrapper(source)
_TextToBytesWrapper(text_io_buffer) ==
    [kind |-> "wrapper", encoding |-> WrapperEncoding(text_io_buffer),
     raw |-> text_io_buffer]

\* _encoding_call('read'): raw.read().encode(self.encoding), line by line
_encoding_call(wrapper) ==
    LET chars == TextRead(wrapper.raw)
    IN  [chars EXCEPT
            !.comment = [k \in 1..Len(chars.comment) |->
                            Encode(wrapper.encoding, chars.comment[k])]]

\* -------------------------------------------------------------------- state
VARIABLES
    ALWAYS_FIND_SYMMETRY,  \* the module-level flag
    PARALLELISM,           \* the module-level default of the parallelism argument
    frame,                 \* the running call between lines 134-135 and its open
    file,                  \* the Matrix Market file the caller can read
    io,                    \* the source or target object the caller passes
    mem,                   \* the matrix the caller holds
    hdr,                   \* the header object the caller holds
    call,                  \* the last public call and its arguments
    raised,                \* the exception the last call raised, or "none"
    scanned,               \* whether the last call called the symmetry detection
    cursor,                \* the cursor the last call opened
    enc,                   \* what the last write handed to the native encoder
    ret                    \* the tuple the last mminfo returned

vars == <<ALWAYS_FIND_SYMMETRY, PARALLELISM, frame, file, io, mem, hdr, call,
          raised, scanned, cursor, enc, ret>>

NoCursor ==
    [opener |-> "none", wrapped |-> FALSE, state |-> "none", body_ops |-> 0,
     content |-> NoText, header |-> NoHeader, parallelism |-> 0]

Failed(error) == [raised |-> error, cursor |-> NoCursor]

\* a read cursor: opening parses and keeps the header; a banner token outside
\* its enumeration fails the open
ReadCursor(opener, wrapped, content, parallelism) ==
    LET parsed == ParseHeader(content)
    IN  IF parsed.raised # "none" THEN Failed(parsed.raised)
        ELSE [raised |-> "none",
              cursor |-> [opener |-> opener, wrapped |-> wrapped, state |-> "open",
                          body_ops |-> 0, content |-> content, header |-> parsed.h,
                          parallelism |-> parallelism]]

\* _core.open_read_file(path, parallelism): a cursor on the bytes of the file
core_open_read_file(source, parallelism) ==
    ReadCursor("open_read_file", FALSE, source.content, parallelism)

\* _core.open_read_stream(stream, parallelism): the codec takes the bytes that read()
\* returns; a read() that returns characters is a TypeError
core_open_read_stream(stream, parallelism) ==
    IF stream.kind = "text" THEN Failed("TypeError")
    ELSE ReadCursor("open_read_stream", stream.kind = "wrapper",
                    IF stream.kind = "wrapper" THEN _encoding_call(stream)
                    ELSE stream.content,
                    parallelism)

\* mutation of ResolveParallelism: an argument of 0 counts as not given
ResolveParallelism_truthy(parallelism) ==
    IF parallelism \in {<<>>, <<0>>} THEN PARALLELISM ELSE parallelism[1]

\* lines 134-135 and 168-169: the local parallelism after
\* "if parallelism is None: parallelism = PARALLELISM".  The argument is <<>>
\* for None and <<n>> for the number n.
ResolveParallelism(parallelism) ==
    IF parallelism = <<>> THEN PARALLELISM ELSE parallelism[1]

\* mutation of _get_read_cursor: a text stream is handed over unwrapped
_get_read_cursor_unwrapped(source, parallelism) ==
    LET p == ResolveParallelism(parallelism)
    IN  IF source.kind = "path" THEN core_open_read_file(source, p)
        ELSE IF source.kind \in {"gz", "bz2", "binary", "text"}
        THEN core_open_read_stream(source, p)
        ELSE Failed("TypeError")

\* _get_read_cursor: [raised, cursor].  A .gz or .bz2 path becomes the
\* decompressing stream, whose read() returns the content.
_get_read_cursor(source, parallelism) ==
    LET p == ResolveParallelism(parallelism)
    IN  IF source.kind = "path" THEN core_open_read_file(source, p)
        ELSE IF source.kind \in {"gz", "bz2", "binary", "text"}
        THEN core_open_read_stream(IF source.kind = "text"
                                   THEN _TextToBytesWrapper(source)
                                   ELSE source,
                                   p)
        ELSE Failed("TypeError")

\* _core.open_write_file / _core.open_write_stream: a cursor bound to h
core_open_write(opener, h, parallelism) ==
    [raised |-> "none",
     cursor |-> [opener |-> opener, wrapped |-> FALSE, state |-> "open",
                 body_ops |-> 0, content |-> NoText, header |-> h,
                 parallelism |-> parallelism]]

\* mutation of _get_write_cursor: the header given is not looked at
_get_write_cursor_default(target, h, comment, parallelism, symmetry) ==
    LET made == header("matrix", "coordinate", "real", symmetry,
                       W(0), W(0), W(0), comment)
    IN  IF made.raised # "none" THEN Failed(made.raised)
        ELSE IF target.kind \in PathKinds
        THEN core_open_write("open_write_file", made.h,
                             ResolveParallelism(parallelism))
        ELSE IF target.kind \in {"binary", "text"}
        THEN (IF target.kind = "text" THEN Failed("TypeError")
              ELSE core_open_write("open_write_stream", made.h,
                                   ResolveParallelism(parallelism)))
        ELSE Failed("TypeError")

\* mutation of _get_write_cursor: a text stream is taken like a binary one
_get_write_cursor_anystream(target, h, comment, parallelism, symmetry) ==
    LET made == IF h = NoHeader
                THEN header("matrix", "coordinate", "real", symmetry,
                            W(0), W(0), W(0), comment)
                ELSE [raised |-> "none", h |-> h]
    IN  IF made.raised # "none" THEN Failed(made.raised)
        ELSE IF target.kind \in PathKinds
        THEN core_open_write("open_write_file", made.h,
                             ResolveParallelism(parallelism))
        ELSE IF target.kind \in {"binary", "text"}
        THEN core_open_write("open_write_stream", made.h,
                                   ResolveParallelism(parallelism))
        ELSE Failed("TypeError")

\* _get_write_cursor: [raised, cursor]
_get_write_cursor(target, h, comment, parallelism, symmetry) ==
    LET made == IF h = NoHeader
                THEN header("matrix", "coordinate", "real", symmetry,
                            W(0), W(0), W(0), comment)
                ELSE [raised |-> "none", h |-> h]
    IN  IF made.raised # "none" THEN Failed(made.raised)
        ELSE IF target.kind \in PathKinds
        THEN core_open_write("open_write_file", made.h,
                             ResolveParallelism(parallelism))
        ELSE IF target.kind \in {"binary", "text"}
        THEN (IF target.kind = "text" THEN Failed("TypeError")
              ELSE core_open_write("open_write_stream", made.h,
                                   ResolveParallelism(parallelism)))
        ELSE Failed("TypeError")

\* a path to the matrix file f, whose comment is the bytes given
PathTo(f, bytes) ==
    [kind |-> "path", encoding |-> "None", content |-> FileText(f, bytes)]

\* an empty binary stream
EmptyStream == [kind |-> "binary", encoding |-> "None", content |-> NoText]

\* no call is running
NoFrame == [op |-> "none"]

\* nothing called yet; line 22: PARALLELISM = 0
Fresh ==
    /\ ALWAYS_FIND_SYMMETRY = FALSE
    /\ PARALLELISM = 0
    /\ frame = NoFrame
    /\ call = [op |-> "none"]
    /\ raised = "none"
    /\ scanned = FALSE
    /\ cursor = NoCursor
    /\ enc = NoEnc
    /\ ret = <<>>

\* a file to read, nothing held yet
InitRead ==
    /\ Fresh
    /\ file \in Files
    /\ io = PathTo(file, <<>>)
    /\ mem = NoMatrix
    /\ hdr = NoHeader

\* a matrix built by the caller, no file, an empty stream to write to
InitWrite ==
    /\ Fresh
    /\ file = NoFile
    /\ io = EmptyStream
    /\ mem \in CallerMatrices
    /\ hdr = NoHeader

\* every body entry on or below the diagonal
LowerOnly(f) == \A k \in 1..Len(f.body) : f.body[k].i >= f.body[k].j

\* a symmetric coordinate file that stores only its lower triangle
InitSymmetric ==
    /\ InitRead
    /\ file.format = "coordinate"
    /\ file.symmetry = "symmetric"
    /\ LowerOnly(file)

\* the files, sources, targets and values of the sessions that vary the kind
\* of source or target
SourceFiles ==
    {f \in Files : /\ f.shape = <<W(MaxIdx), W(MaxIdx)>>
                   /\ f.field = "real"
                   /\ f.symmetry \in {"general", "symmetric"}
                   /\ f.format = "array" => f.symmetry = "general"
                   /\ f.format = "coordinate" => Len(f.body) <= 1}

\* the bytes a comment is made of
CommentBytes ==
    UNION {[1..n -> {10, 97, 195, 169}] : n \in 0..MaxComment}

\* every kind of source for the file f; the characters of a text stream
\* stand for bytes that decode under its encoding
Sources(f) ==
    {[kind |-> k, encoding |-> e, content |-> FileText(f, b)] :
        k \in IoKinds \ {"text"}, e \in {"None"}, b \in CommentBytes}
    \cup UNION {{[kind |-> "text", encoding |-> e, content |-> FileText(f, b)] :
                    b \in {x \in CommentBytes :
                             ValidBytes(IF e = "None" THEN "utf-8" ELSE e, x)}} :
                e \in TextEncodings}

Targets ==
    {[kind |-> k, encoding |-> "None", content |-> NoText] : k \in IoKinds}

\* a dense array, a coordinate and a compressed matrix, and a value of no
\* matrix type
TargetMatrices ==
    {m \in CallerMatrices : /\ m.shape = <<W(100), W(100)>>
                            /\ m.dtype = "float64"
                            /\ m.kind \in {"ndarray", "coo", "csr"}
                            /\ Len(m.data) = 1}
    \cup {UnknownValue}

\* header(shape=(2, 2), nnz=1)
SomeHeader ==
    header("matrix", "coordinate", "real", "general", W(2), W(2), W(1), <<>>).h

InitSource ==
    /\ Fresh
    /\ file \in SourceFiles
    /\ io \in Sources(file)
    /\ mem = NoMatrix
    /\ hdr = NoHeader

InitTarget ==
    /\ Fresh
    /\ file = NoFile
    /\ io \in Targets
    /\ mem \in TargetMatrices
    /\ hdr = SomeHeader

InitIO == InitSource \/ InitTarget

\* no header object yet, an empty stream
InitHeader ==
    /\ Fresh
    /\ file = NoFile
    /\ io = EmptyStream
    /\ mem = NoMatrix
    /\ hdr = NoHeader

\* the largest 64-bit signed integer, and the numerals 2^63 and 2^64
MaxInt64 == <<2^15 - 1, LimbBase - 1, LimbBase - 1, LimbBase - 1>>
Two63Numeral == <<2^15, 0, 0, 0>>
Two64Numeral == <<1, 0, 0, 0, 0>>

\* the tokens of a dimension line: small, the largest that fits, the
\* smallest that does not, and one that is wider than 64 bits
DimensionTokens == {W(MaxIdx), MaxInt64, Two63Numeral, Two64Numeral}

\* the tokens that stand for a 64-bit signed integer
FittingTokens == {W(MaxIdx), MaxInt64}

\* the coordinate files whose header text is varied
OverflowFiles(rows, cols) ==
    [format : {"coordinate"}, field : {"real"},
     symmetry : {"general", "symmetric"},
     shape : {<<IF rows \in FittingTokens THEN rows ELSE W(MaxIdx),
                IF cols \in FittingTokens THEN cols ELSE W(MaxIdx)>>},
     body : {b \in Bodies("real") : Len(b) <= 1}]

\* a coordinate file behind a path whose header text carries the dimension
\* tokens rows, cols and nnz and, maybe, a field token of no enumeration;
\* file holds the shape of the tokens that fit
InitOverflow ==
    /\ Fresh
    /\ mem = NoMatrix
    /\ hdr = NoHeader
    /\ \E rows \in DimensionTokens, cols \in DimensionTokens,
          nnz_fits \in BOOLEAN, fld \in {"real", "foo"} :
          /\ file \in OverflowFiles(rows, cols)
          /\ io = [PathTo(file, <<>>) EXCEPT
                      !.content.banner[3] = fld,
                      !.content.dims = <<rows, cols,
                                         IF nnz_fits THEN W(Len(file.body))
                                         ELSE Two63Numeral>>]

\* a source or a target with no comment, for sessions of several calls
InitCursor == InitIO /\ io.content.comment = <<>>

\* a path or a binary stream, as source or as target, for the calls that are
\* followed from line 134 or 168 on while PARALLELISM is assigned
InitParallel ==
    /\ InitCursor
    /\ io.kind \in {"path", "binary"}
    /\ file # NoFile => file.symmetry = "general"
    /\ mem # UnknownValue

Init == InitRead \/ InitWrite \/ InitIO \/ InitHeader \/ InitOverflow

\* ----------------------------------------------------------------- actions
\* the cursor after the codec's body call: consumed and released
BodyDone(c) == [c EXCEPT !.state = "closed", !.body_ops = @ + 1]

\* the cursor after cursor.close() or a header-only call of the codec
Closed(c) == [c EXCEPT !.state = "closed"]

\* the body of a read that goes through _read_body_coo
ReadBodyCoo(long_type, generalize_symmetry, wrap_coo) ==
    IF ReadBodyCooRaises(Header(file), long_type, generalize_symmetry)
    THEN /\ raised' \in NegateUnsignedErrors
         /\ mem' = mem
    ELSE /\ raised' = "none"
         /\ mem' = IF wrap_coo
                   THEN coo_matrix(_read_body_coo(file, long_type, generalize_symmetry))
                   ELSE _read_body_coo(file, long_type, generalize_symmetry)

ReadBodyArray(long_type) ==
    /\ raised' = "none"
    /\ mem' = _read_body_array(file, long_type)

\* mutation of FormatIsArray: the symmetry is looked at as well
FormatIsArray_general(h) == h.format = "array" /\ h.symmetry = "general"

\* lines 353 and 376: cursor.header.format == "array"
FormatIsArray(h) == h.format = "array"

\* mutation of ReadWith: the body call is made twice on the cursor
ReadWith_twice(parallelism, Body) ==
    \E c \in {_get_read_cursor(io, parallelism)} :
        IF c.raised # "none"
        THEN raised' = c.raised /\ mem' = mem /\ cursor' = c.cursor
        ELSE Body /\ cursor' = BodyDone(BodyDone(c.cursor))

\* a read operation: open the cursor, then the body call given
ReadWith(parallelism, Body) ==
    \E c \in {_get_read_cursor(io, parallelism)} :
        IF c.raised # "none"
        THEN raised' = c.raised /\ mem' = mem /\ cursor' = c.cursor
        ELSE Body /\ cursor' = BodyDone(c.cursor)

\* (reading an array file as triplets is the codec's business: not modelled)
read_coo(parallelism, long_type, generalize_symmetry) ==
    /\ file # NoFile
    /\ file.format = "coordinate"
    /\ call.op = "none"
    /\ call' = [op |-> "read_coo", long_type |-> long_type,
                generalize_symmetry |-> generalize_symmetry]
    /\ ReadWith(parallelism, ReadBodyCoo(long_type, generalize_symmetry, FALSE))
    /\ scanned' = FALSE
    /\ enc' = NoEnc
    /\ UNCHANGED <<ALWAYS_FIND_SYMMETRY, PARALLELISM, frame, file, io, hdr, ret>>

read_array(parallelism, long_type) ==
    /\ file # NoFile
    /\ call.op = "none"
    /\ call' = [op |-> "read_array", long_type |-> long_type]
    /\ ReadWith(parallelism, ReadBodyArray(long_type))
    /\ scanned' = FALSE
    /\ enc' = NoEnc
    /\ UNCHANGED <<ALWAYS_FIND_SYMMETRY, PARALLELISM, frame, file, io, hdr, ret>>

read_array_or_coo(parallelism, long_type, generalize_symmetry) ==
    /\ file # NoFile
    /\ call.op = "none"
    /\ call' = [op |-> "read_array_or_coo", long_type |-> long_type,
                generalize_symmetry |-> generalize_symmetry]
    /\ ReadWith(parallelism, IF FormatIsArray(Header(file))
                THEN ReadBodyArray(long_type)
                ELSE ReadBodyCoo(long_type, generalize_symmetry, FALSE))
    /\ scanned' = FALSE
    /\ enc' = NoEnc
    /\ UNCHANGED <<ALWAYS_FIND_SYMMETRY, PARALLELISM, frame, file, io, hdr, ret>>

mmread(parallelism, long_type) ==
    /\ file # NoFile
    /\ call.op = "none"
    /\ call' = [op |-> "mmread", long_type |-> long_type]
    /\ ReadWith(parallelism, IF FormatIsArray(Header(file))
                THEN ReadBodyArray(long_type)
                ELSE ReadBodyCoo(long_type, TRUE, TRUE))
    /\ scanned' = FALSE
    /\ enc' = NoEnc
    /\ UNCHANGED <<ALWAYS_FIND_SYMMETRY, PARALLELISM, frame, file, io, hdr, ret>>

\* mutation of ReadHeader: the cursor is left open
ReadHeader_open(source) ==
    LET c == _get_read_cursor(source, <<1>>)
    IN  IF c.raised # "none"
        THEN [raised |-> c.raised, h |-> NoHeader, cursor |-> c.cursor]
        ELSE [raised |-> "none", h |-> c.cursor.header, cursor |-> c.cursor]

\* read_header(source): [raised, h, cursor]; the cursor is closed by hand
ReadHeader(source) ==
    LET c == _get_read_cursor(source, <<1>>)
    IN  IF c.raised # "none"
        THEN [raised |-> c.raised, h |-> NoHeader, cursor |-> c.cursor]
        ELSE [raised |-> "none", h |-> c.cursor.header, cursor |-> Closed(c.cursor)]

read_header ==
    /\ io.content # NoText
    /\ call.op \in {"none", "write_header"}
    /\ call' = [op |-> "read_header"]
    /\ \E r \in {ReadHeader(io)} :
          /\ raised' = r.raised
          /\ hdr' = IF r.raised = "none" THEN r.h ELSE hdr
          /\ cursor' = r.cursor
    /\ scanned' = FALSE
    /\ UNCHANGED <<ALWAYS_FIND_SYMMETRY, PARALLELISM, frame, file, io, mem, enc, ret>>

mminfo ==
    /\ io.content # NoText
    /\ call.op = "none"
    /\ call' = [op |-> "mminfo"]
    /\ \E r \in {ReadHeader(io)} :
          /\ raised' = r.raised
          /\ ret' = IF r.raised = "none"
                    THEN <<r.h.nrows, r.h.ncols, r.h.nnz, r.h.format, r.h.field,
                           r.h.symmetry>>
                    ELSE ret
          /\ cursor' = r.cursor
    /\ scanned' = FALSE
    /\ UNCHANGED <<ALWAYS_FIND_SYMMETRY, PARALLELISM, frame, file, io, mem, hdr, enc>>

\* the operations that write
WriteOps == {"write_header", "write_array", "write_coo", "mmwrite"}

\* the call of a native body encoder for what the caller holds, as is
EncodeHeld(fn, c) ==
    [fn |-> fn, raised |-> "none", symmetry |-> c.header.symmetry,
     shape |-> mem.shape, dtype |-> mem.dtype,
     i |-> mem.i, j |-> mem.j, data |-> mem.data, is_csr |-> FALSE]

\* write_header(target, h)
write_header ==
    /\ hdr # NoHeader
    /\ call.op \in {"none", "header", "setattr"}
    /\ call' = [op |-> "write_header"]
    /\ \E c \in {_get_write_cursor(io, hdr, <<>>, <<1>>, "general")} :
          IF c.raised # "none"
          THEN /\ raised' = c.raised
               /\ cursor' = c.cursor
               /\ enc' = NoEnc
               /\ io' = io
          ELSE /\ raised' = "none"
               /\ cursor' = Closed(c.cursor)
               /\ enc' = [fn |-> "write_header_only", header |-> c.cursor.header]
               /\ io' = [io EXCEPT !.content = Serialize(c.cursor.header)]
    /\ scanned' = FALSE
    /\ UNCHANGED <<ALWAYS_FIND_SYMMETRY, PARALLELISM, frame, file, mem, hdr, ret>>

\* write_array(target, a) for an array-like a
write_array(parallelism) ==
    /\ mem.kind = "ndarray"
    /\ call.op = "none"
    /\ call' = [op |-> "write_array"]
    /\ \E c \in {_get_write_cursor(io, NoHeader, <<>>, parallelism, "general")} :
          IF c.raised # "none"
          THEN /\ raised' = c.raised
               /\ cursor' = c.cursor
               /\ enc' = NoEnc
          ELSE /\ raised' = "none"
               /\ cursor' = BodyDone(c.cursor)
               /\ enc' = EncodeHeld("write_body_array", c.cursor)
    /\ scanned' = FALSE
    /\ UNCHANGED <<ALWAYS_FIND_SYMMETRY, PARALLELISM, frame, file, io, mem, hdr, ret>>

\* write_coo(target, a, shape) for the triplet a of the coordinate matrix
\* held; shape_len is len(shape)
write_coo(parallelism, shape_len) ==
    /\ mem.kind = "coo"
    /\ call.op = "none"
    /\ call' = [op |-> "write_coo", shape_len |-> shape_len]
    /\ IF shape_len # 2
       THEN /\ raised' = "ValueError"
            /\ cursor' = NoCursor
            /\ enc' = NoEnc
       ELSE \E c \in {_get_write_cursor(io, NoHeader, <<>>, parallelism, "general")} :
              IF c.raised # "none"
              THEN /\ raised' = c.raised
                   /\ cursor' = c.cursor
                   /\ enc' = NoEnc
              ELSE /\ raised' = "none"
                   /\ cursor' = BodyDone(c.cursor)
                   /\ enc' = EncodeHeld("write_body_coo", c.cursor)
    /\ scanned' = FALSE
    /\ UNCHANGED <<ALWAYS_FIND_SYMMETRY, PARALLELISM, frame, file, io, mem, hdr, ret>>

\* mmwrite(target, a, field=, symmetry=, find_symmetry=).  The cursor is
\* opened once the symmetry is validated; an error raised after that leaves
\* it as it is.
mmwrite(parallelism, symmetry, find_symmetry, field) ==
    /\ mem.kind \in MatrixKinds \cup {"unknown"}
    /\ call.op \notin WriteOps
    /\ call' = [op |-> "mmwrite", symmetry |-> symmetry,
                find_symmetry |-> find_symmetry, field |-> field,
                always_find |-> ALWAYS_FIND_SYMMETRY]
    /\ scanned' = RunsDetection(mem, symmetry, find_symmetry, ALWAYS_FIND_SYMMETRY)
    /\ \E available \in BOOLEAN :
       \E sym \in {ResolveSymmetry(mem, symmetry, find_symmetry,
                                   ALWAYS_FIND_SYMMETRY, available)} :
         IF sym = "ValueError"
         THEN raised' = "ValueError" /\ enc' = NoEnc /\ cursor' = NoCursor
         ELSE \E c \in {_get_write_cursor(io, NoHeader, <<>>, parallelism, sym)} :
                IF c.raised # "none"
                THEN raised' = c.raised /\ enc' = NoEnc /\ cursor' = c.cursor
                ELSE \E w \in {WriteBody(mem, sym, field)} :
                       IF w.raised # "none"
                       THEN raised' = w.raised /\ enc' = NoEnc /\ cursor' = c.cursor
                       ELSE raised' = "none" /\ enc' = w
                            /\ cursor' = BodyDone(c.cursor)
    /\ UNCHANGED <<ALWAYS_FIND_SYMMETRY, PARALLELISM, frame, file, io, mem, hdr, ret>>

\* fast_matrix_market.ALWAYS_FIND_SYMMETRY = b
SetAlwaysFindSymmetry(b) ==
    /\ call.op = "none"
    /\ ALWAYS_FIND_SYMMETRY # b
    /\ ALWAYS_FIND_SYMMETRY' = b
    /\ UNCHANGED <<PARALLELISM, frame, file, io, mem, hdr, call, raised, scanned,
                   cursor, enc, ret>>

\* the arguments modelled for the header constructor and the setters: valid
\* literals, valid ones in another letter case, and one outside every
\* enumeration
EnumArgs(attr) ==
    CASE attr = "object" -> {"matrix", "Vector", "foo"}
      [] attr = "format" -> {"array", "Coordinate", "foo"}
      [] attr = "field" -> {"integer", "Real", "double", "foo"}
      [] attr = "symmetry" -> {"general", "Hermitian", "foo"}

\* (nrows, ncols, nnz) given to the header constructor
HeaderSizes == {<<W(1), W(1), W(1)>>, <<W(2), W(3), W(1)>>}

\* the comments given to the header constructor: empty, a lone newline,
\* newlines inside and at the ends, characters outside ASCII
Comments == UNION {[1..n -> CodePoints] : n \in 0..MaxComment}

\* hdr = fast_matrix_market.header(...)
new_header(object, format, field, symmetry, size, comment) ==
    /\ hdr = NoHeader
    /\ call.op = "none"
    /\ call' = [op |-> "header", object |-> object, format |-> format,
                field |-> field, symmetry |-> symmetry]
    /\ \E made \in {header(object, format, field, symmetry,
                           size[1], size[2], size[3], comment)} :
          /\ raised' = made.raised
          /\ hdr' = IF made.raised = "none" THEN made.h ELSE hdr
    /\ UNCHANGED <<ALWAYS_FIND_SYMMETRY, PARALLELISM, frame, file, io, mem, scanned, cursor, enc, ret>>

\* hdr.attr = value
setattr(attr, value) ==
    /\ hdr # NoHeader
    /\ call.op \in {"header", "setattr"}
    /\ call' = [op |-> "setattr", attr |-> attr, value |-> value]
    /\ \E r \in {header_set(hdr, attr, value)} :
          /\ raised' = r.raised
          /\ hdr' = r.h
    /\ UNCHANGED <<ALWAYS_FIND_SYMMETRY, PARALLELISM, frame, file, io, mem, scanned, cursor, enc, ret>>

\* A session is: set the flag, read the file (at most once), write the matrix
\* held (at most once).  Every call opens its own cursor and keeps nothing
\* between calls but the flag, so longer sessions reach no other results.
NextRead ==
    \/ \E l \in BOOLEAN, g \in BOOLEAN : read_coo(<<>>, l, g)
    \/ \E l \in BOOLEAN : read_array(<<>>, l)
    \/ \E l \in BOOLEAN, g \in BOOLEAN : read_array_or_coo(<<>>, l, g)
    \/ \E l \in BOOLEAN : mmread(<<>>, l)

NextWrite ==
    \/ \E s \in SymmetryArgs, fs \in BOOLEAN, fld \in FieldArgs : mmwrite(<<>>, s, fs, fld)
    \/ \E b \in BOOLEAN : SetAlwaysFindSymmetry(b)

\* one operation on a source or a target of any kind
NextIO ==
    \/ NextRead
    \/ read_header
    \/ mminfo
    \/ write_header
    \/ write_array(<<>>)
    \/ \E n \in {2, 3} : write_coo(<<>>, n)
    \/ \E s \in SymmetryArgs, fs \in BOOLEAN, fld \in FieldArgs :
          call.op = "none" /\ mmwrite(<<>>, s, fs, fld)

\* a header is made, its attributes are assigned, it is written and read back
NextHeader ==
    \/ \E o \in EnumArgs("object"), f \in EnumArgs("format"),
          fld \in EnumArgs("field"), s \in EnumArgs("symmetry"),
          size \in HeaderSizes, c \in Comments :
          new_header(o, f, fld, s, size, c)
    \/ \E a \in EnumAttrs : \E v \in EnumArgs(a) : setattr(a, v)
    \/ write_header
    \/ read_header

\* one read of a file whose dimension line may not fit.  (A dense read of a
\* file whose shape fits but is beyond every memory is left out.)
NextOverflow ==
    \/ read_header
    \/ mminfo
    \/ \E l \in BOOLEAN, g \in BOOLEAN : read_coo(<<>>, l, g)
    \/ \E l \in BOOLEAN, g \in BOOLEAN : read_array_or_coo(<<>>, l, g)
    \/ \E l \in BOOLEAN : mmread(<<>>, l)
    \/ /\ file.shape = <<W(MaxIdx), W(MaxIdx)>>
       /\ \E l \in BOOLEAN : read_array(<<>>, l)

\* the call returns, or its error has reached the caller: the caller may
\* call again.  The cursor of the call is not touched any more.
Return ==
    /\ call.op # "none"
    /\ call' = [op |-> "none"]
    /\ frame' = NoFrame
    /\ UNCHANGED <<ALWAYS_FIND_SYMMETRY, PARALLELISM, file, io, mem, hdr, raised,
                   scanned, cursor, enc, ret>>

\* any number of calls, one after the other: reads of a source, writes to a
\* target, header reads of either
NextCursor ==
    \/ NextRead
    \/ read_header
    \/ mminfo
    \/ file = NoFile /\ write_header
    \/ file = NoFile /\ write_array(<<>>)
    \/ file = NoFile /\ \E n \in {2, 3} : write_coo(<<>>, n)
    \/ \E s \in SymmetryArgs, fs \in BOOLEAN, fld \in FieldArgs :
          file = NoFile /\ call.op = "none" /\ mmwrite(<<>>, s, fs, fld)
    \/ Return

\* the values PARALLELISM is given, and the parallelism arguments of a call:
\* <<>> is None (or the argument left out), <<n>> is the number n
ParallelismValues == {0, 64}
ParallelismArgs == {<<>>, <<0>>, <<64>>}

\* fast_matrix_market.PARALLELISM = n, by any thread, at any time
SetParallelism(n) ==
    /\ PARALLELISM # n
    /\ PARALLELISM' = n
    /\ UNCHANGED <<ALWAYS_FIND_SYMMETRY, frame, file, io, mem, hdr, call, raised,
                   scanned, cursor, enc, ret>>

\* the operations that read
ReadOps ==
    {"read_header", "mminfo", "read_array", "read_coo", "read_array_or_coo",
     "mmread"}

\* what the operation op, called with parallelism, hands to _get_read_cursor
\* or _get_write_cursor as parallelism.  Lines 259 and 272: read_header,
\* mminfo and write_header ask for one thread.
CursorArgument(op, parallelism) ==
    IF op \in {"read_header", "mminfo", "write_header"} THEN <<1>>
    ELSE parallelism

\* the call of op, for which the caller has what op takes, up to lines
\* 134-135 (168-169 for a write): the local parallelism is set.  seen keeps
\* the value PARALLELISM has at these lines.
Enter(op, parallelism) ==
    /\ call.op = "none"
    /\ frame.op = "none"
    /\ op \in ReadOps => io.content # NoText
    /\ op \in WriteOps => file = NoFile
    /\ op = "read_coo" => file.format = "coordinate"
    /\ op = "write_header" => hdr # NoHeader
    /\ op = "write_array" => mem.kind = "ndarray"
    /\ op = "write_coo" => mem.kind = "coo"
    /\ \E given \in {CursorArgument(op, parallelism)} :
          frame' = [op |-> op, argument |-> given, seen |-> PARALLELISM,
                    parallelism |-> ResolveParallelism(given)]
    /\ UNCHANGED <<ALWAYS_FIND_SYMMETRY, PARALLELISM, file, io, mem, hdr, call,
                   raised, scanned, cursor, enc, ret>>

\* the rest of the call that is running, from line 137 (170) on, with the
\* local parallelism it holds
Proceed ==
    \/ /\ frame.op = "read_header"
       /\ read_header
    \/ /\ frame.op = "mminfo"
       /\ mminfo
    \/ /\ frame.op = "read_array"
       /\ \E l \in BOOLEAN : read_array(<<frame.parallelism>>, l)
    \/ /\ frame.op = "read_coo"
       /\ \E l \in BOOLEAN, g \in BOOLEAN : read_coo(<<frame.parallelism>>, l, g)
    \/ /\ frame.op = "read_array_or_coo"
       /\ \E l \in BOOLEAN, g \in BOOLEAN :
             read_array_or_coo(<<frame.parallelism>>, l, g)
    \/ /\ frame.op = "mmread"
       /\ \E l \in BOOLEAN : mmread(<<frame.parallelism>>, l)
    \/ /\ frame.op = "write_header"
       /\ write_header
    \/ /\ frame.op = "write_array"
       /\ write_array(<<frame.parallelism>>)
    \/ /\ frame.op = "write_coo"
       /\ \E n \in {2, 3} : write_coo(<<frame.parallelism>>, n)
    \/ /\ frame.op = "mmwrite"
       /\ call.op = "none"
       /\ \E s \in {"general", "AUTO"}, fs \in BOOLEAN :
             mmwrite(<<frame.parallelism>>, s, fs, "None")

\* calls, one after the other, each in two steps, and assignments of
\* PARALLELISM in between
NextParallel ==
    \/ \E n \in ParallelismValues : SetParallelism(n)
    \/ \E op \in ReadOps \cup WriteOps, p \in ParallelismArgs : Enter(op, p)
    \/ Proceed
    \/ Return

Next ==
    \/ NextRead \/ NextWrite \/ NextIO \/ NextHeader \/ NextOverflow \/ NextCursor
    \/ NextParallel

\* every file and every caller's matrix, every operation
Spec == Init /\ [][Next]_vars

\* the read operations on every file
SpecRead == InitRead /\ [][NextRead]_vars

\* mmwrite on every caller's matrix
SpecWrite == InitWrite /\ [][NextWrite]_vars

\* mmread of a symmetric lower-triangle file, then mmwrite of what was read
NextRoundTrip == (\E l \in BOOLEAN : mmread(<<>>, l)) \/ NextWrite

SpecSymmetric == InitSymmetric /\ [][NextRoundTrip]_vars

\* every operation on every kind of source and target
SpecIO == InitIO /\ [][NextIO]_vars

\* header objects and their text
SpecHeader == InitHeader /\ [][NextHeader]_vars

\* reads of header texts whose numerals may not fit 64 bits
SpecOverflow == InitOverflow /\ [][NextOverflow]_vars

\* sessions of several calls
SpecCursor == InitCursor /\ [][NextCursor]_vars

\* calls in two steps while PARALLELISM is assigned by another thread
SpecParallel == InitParallel /\ [][NextParallel]_vars

\* ================================================================== claims
\* how often the triplet (r, c, v) occurs in the file's body
BodyCount(r, c, v) ==
    Cardinality({k \in 1..Len(file.body) :
                    file.body[k].i = r /\ file.body[k].j = c /\ file.body[k].v = v})

\* how often the triplet (r, c, v) occurs in the matrix held
MemCount(r, c, v) ==
    Cardinality({k \in 1..Len(mem.i) :
                    mem.i[k] = r /\ mem.j[k] = c /\ mem.data[k] = v})

\* mathematical negation and conjugation of a matrix value
NegV(v) == [re |-> NegW(v.re), im |-> NegW(v.im)]
ConjV(v) == [re |-> v.re, im |-> NegW(v.im)]

\* the values that occur in the body or in the matrix held, and their images
ValuesSeen ==
    LET base == {file.body[k].v : k \in 1..Len(file.body)}
                \cup {mem.data[k] : k \in 1..Len(mem.data)}
    IN  base \cup {NegV(v) : v \in base} \cup {ConjV(v) : v \in base}

\* the last call read a coordinate file with generalization on
GeneralizingCall ==
    /\ file # NoFile
    /\ file.format = "coordinate"
    /\ \/ call.op = "mmread"
       \/ call.op \in {"read_coo", "read_array_or_coo"} /\ call.generalize_symmetry

\* the held triplets are well formed: three sequences of one length, indices
\* in the modelled range
WellFormedTriplets ==
    /\ Len(mem.i) = Len(mem.data)
    /\ Len(mem.j) = Len(mem.data)
    /\ \A k \in 1..Len(mem.i) : mem.i[k] \in Indices /\ mem.j[k] \in Indices

\* C1: a generalized read of a symmetric coordinate file returns the parsed
\* entries plus, for every parsed off-diagonal entry (i,j,v), one more entry
\* (j,i,v); a parsed diagonal entry occurs as often as it was parsed.
C1_SymmetricGeneralization ==
    (GeneralizingCall /\ file.symmetry = "symmetric" /\ raised = "none") =>
        /\ WellFormedTriplets
        /\ \A r \in Indices, c \in Indices, v \in ValuesSeen :
              MemCount(r, c, v) =
                  BodyCount(r, c, v) + (IF r # c THEN BodyCount(c, r, v) ELSE 0)

\* C1 witness: a symmetric body with an off-diagonal and a diagonal entry was
\* read, and three entries came back.
C1_Witness ==
    /\ GeneralizingCall /\ file.symmetry = "symmetric" /\ raised = "none"
    /\ \E k \in 1..Len(file.body) : file.body[k].i # file.body[k].j
    /\ \E k \in 1..Len(file.body) : file.body[k].i = file.body[k].j
    /\ Len(mem.data) = 3

\* C2: a generalized read of a skew-symmetric coordinate file returns, for
\* every parsed off-diagonal entry (i,j,v), one more entry (j,i,-v), whatever
\* field the file declares.
C2_SkewGeneralization ==
    (GeneralizingCall /\ file.symmetry = "skew-symmetric") =>
        /\ raised = "none"
        /\ WellFormedTriplets
        /\ \A r \in Indices, c \in Indices, v \in ValuesSeen :
              MemCount(r, c, v) =
                  BodyCount(r, c, v) + (IF r # c THEN BodyCount(c, r, NegV(v)) ELSE 0)

\* C3: a generalized read of a hermitian coordinate file returns, for every
\* parsed off-diagonal entry (i,j,v), one more entry (j,i,conj(v)); no
\* diagonal entry is duplicated.
C3_HermitianGeneralization ==
    (GeneralizingCall /\ file.symmetry = "hermitian" /\ raised = "none") =>
        /\ WellFormedTriplets
        /\ \A r \in Indices, c \in Indices, v \in ValuesSeen :
              MemCount(r, c, v) =
                  BodyCount(r, c, v) + (IF r # c THEN BodyCount(c, r, ConjV(v)) ELSE 0)

\* C3 witness: a hermitian complex body with an off-diagonal entry whose
\* imaginary part is not zero, and a diagonal entry, was read.
C3_Witness ==
    /\ GeneralizingCall /\ file.symmetry = "hermitian" /\ raised = "none"
    /\ file.field = "complex"
    /\ \E k \in 1..Len(file.body) :
          file.body[k].i # file.body[k].j /\ file.body[k].v.im # W(0)
    /\ \E k \in 1..Len(file.body) : file.body[k].i = file.body[k].j
    /\ Len(mem.data) = 3

\* the last call returned coordinate triplets without generalizing: the file
\* is general, or the caller passed generalize_symmetry=False
IdentityCall ==
    /\ file # NoFile
    /\ raised = "none"
    /\ mem.kind \in {"triplet", "coo"}
    /\ \/ call.op \in {"read_coo", "read_array_or_coo", "mmread"}
          /\ file.symmetry = "general"
       \/ call.op \in {"read_coo", "read_array_or_coo"}
          /\ ~call.generalize_symmetry

\* C4: when the symmetry is general, or generalize_symmetry is False, the
\* returned row, column and value sequences are the parsed ones, in order,
\* and as long as the header's nnz.
C4_GeneralIsIdentity ==
    IdentityCall =>
        /\ mem.i = [k \in 1..Len(file.body) |-> file.body[k].i]
        /\ mem.j = [k \in 1..Len(file.body) |-> file.body[k].j]
        /\ mem.data = [k \in 1..Len(file.body) |-> file.body[k].v]
        /\ W(Len(mem.data)) = Header(file).nnz

\* C4 witness: a symmetric body with two off-diagonal entries was read with
\* generalize_symmetry=False.
C4_Witness ==
    /\ IdentityCall
    /\ call.op = "read_coo"
    /\ file.symmetry = "symmetric"
    /\ Len(file.body) = 2
    /\ \A k \in 1..Len(file.body) : file.body[k].i # file.body[k].j

\* the last call returned coordinate triplets
CooResult ==
    /\ file # NoFile
    /\ raised = "none"
    /\ call.op \in {"read_coo", "read_array_or_coo", "mmread"}
    /\ mem.kind \in {"triplet", "coo"}

\* C5: the row and column indices are 32-bit when rows < 2^31 and
\* cols < 2^31, 64-bit otherwise; both always have the same width.
C5_IndexWidth ==
    CooResult =>
        /\ mem.i_dtype = mem.j_dtype
        /\ mem.i_dtype =
              IF LtW(file.shape[1], Two31) /\ LtW(file.shape[2], Two31)
              THEN "int32" ELSE "int64"

\* C5 witness: a file with exactly 2^31 rows was read with generalization and
\* an entry was mirrored.
C5_Witness ==
    /\ CooResult /\ GeneralizingCall
    /\ file.symmetry = "symmetric"
    /\ file.shape[1] = Two31
    /\ Len(mem.data) > Len(file.body)
    /\ mem.i_dtype = "int64"

\* the field/long table of the format
CanonicalDtype(field, long_type) ==
    CASE field = "integer" -> "int64"
      [] field = "unsigned-integer" -> "uint64"
      [] field \in {"real", "double", "pattern"} ->
            IF long_type THEN "longdouble" ELSE "float64"
      [] field = "complex" -> IF long_type THEN "longcomplex" ELSE "complex"

\* C6: the storage type of a read is the table's entry for the header field
\* and long_type, for every field (real and double alike).
C6_CanonicalDtype ==
    (file # NoFile /\ call.op \in {"read_coo", "read_array", "read_array_or_coo", "mmread"}
        /\ raised = "none") =>
        mem.dtype = CanonicalDtype(file.field, call.long_type)

\* ------------------------------------------------------------ write claims
\* the last call was mmwrite and it reached the native encoder
Written == call.op = "mmwrite" /\ raised = "none" /\ enc.fn # "none"

\* the symmetry literal an explicit argument names
NamedSymmetry(arg) ==
    CASE arg = "general" -> "general"
      [] arg = "symmetric" -> "symmetric"
      [] arg = "Skew-Symmetric" -> "skew-symmetric"
      [] arg = "hermitian" -> "hermitian"

\* both dimensions of the matrix held are below 100
SmallMatrix == LtW(mem.shape[1], W(100)) /\ LtW(mem.shape[2], W(100))

C8_AutoNeverDetects ==
    (call.op = "mmwrite" /\ call.symmetry = "AUTO") =>
        /\ scanned => (call.find_symmetry \/ call.always_find)
        /\ (~call.find_symmetry /\ ~call.always_find /\ raised = "none") =>
              enc.symmetry = "general"

\* C8 amended: with symmetry left at AUTO the detection is called exactly when
\* find_symmetry is set, ALWAYS_FIND_SYMMETRY is set, or both dimensions of
\* the matrix are below 100; so with both False it is skipped, and general
\* written, only for a matrix with a dimension of 100 or more. When the
\* detection is called its result (general when scipy has none) is written.
C8_AutoDetectsSmallOnly ==
    (call.op = "mmwrite" /\ call.symmetry = "AUTO") =>
        /\ scanned <=> (call.find_symmetry \/ call.always_find \/ SmallMatrix)
        /\ (raised = "none" /\ ~scanned) => enc.symmetry = "general"
        /\ (raised = "none" /\ scanned) =>
              enc.symmetry \in {_get_symmetry(mem), "general"}

\* C8 witness: a symmetric 100 x 100 matrix with off-diagonal entries was
\* written with the defaults: no detection, general.
C8_Witness ==
    /\ Written
    /\ call.symmetry = "AUTO" /\ ~call.find_symmetry /\ ~call.always_find
    /\ mem.shape = <<W(100), W(100)>>
    /\ \E k \in 1..Len(mem.i) : mem.i[k] # mem.j[k]
    /\ _get_symmetry(mem) = "symmetric"
    /\ ~scanned
    /\ enc.symmetry = "general"

\* how often the encoder received the triplet (r, c, v)
EncCount(r, c, v) ==
    Cardinality({k \in 1..Len(enc.i) :
                    enc.i[k] = r /\ enc.j[k] = c /\ enc.data[k] = v})

\* how often the encoder received the position (r, c)
EncPosCount(r, c) ==
    Cardinality({k \in 1..Len(enc.i) : enc.i[k] = r /\ enc.j[k] = c})

\* how often the position (r, c) occurs in the matrix held
MemPosCount(r, c) ==
    Cardinality({k \in 1..Len(mem.i) : mem.i[k] = r /\ mem.j[k] = c})

\* a value converted to a real field: its real part
RealPart(v) == [re |-> v.re, im |-> W(0)]

\* how often (r, c) occurs in the matrix held with a value whose real part is v
MemRealCount(r, c, v) ==
    Cardinality({k \in 1..Len(mem.i) :
                    mem.i[k] = r /\ mem.j[k] = c /\ RealPart(mem.data[k]) = v})

\* the values in the matrix held or handed to the encoder
ValuesWritten ==
    {mem.data[k] : k \in 1..Len(mem.data)} \cup {enc.data[k] : k \in 1..Len(enc.data)}

\* the last call wrote a sparse matrix under a symmetry other than general
ReducedWrite ==
    /\ Written
    /\ mem.kind \in SparseKinds
    /\ enc.symmetry # "general"

\* C9 as stated: a sparse matrix written under a symmetry other than general
\* reaches the encoder as exactly its entries with row >= col, every value
\* unchanged, under the unchanged shape.
C9_LowerTriangleVerbatim ==
    ReducedWrite =>
        /\ enc.shape = mem.shape
        /\ Len(enc.j) = Len(enc.i)
        /\ Len(enc.data) = Len(enc.i)
        /\ \A r \in Indices, c \in Indices, v \in ValuesWritten :
              EncCount(r, c, v) = (IF r >= c THEN MemCount(r, c, v) ELSE 0)

\* C9 amended: the encoder receives exactly the positions with row >= col,
\* under the unchanged shape; the reduction leaves the values alone, so with
\* field None every kept entry has its value unchanged, with a numeric field
\* it has that value converted to the field's type, and with field pattern
\* no values are handed over at all.
C9_LowerTriangleThenField ==
    ReducedWrite =>
        /\ enc.fn = "write_body_coo"
        /\ enc.shape = mem.shape
        /\ Len(enc.j) = Len(enc.i)
        /\ \A k \in 1..Len(enc.i) : enc.i[k] \in Indices /\ enc.j[k] \in Indices
        /\ \A r \in Indices, c \in Indices :
              EncPosCount(r, c) = (IF r >= c THEN MemPosCount(r, c) ELSE 0)
        /\ CASE call.field = "None" ->
                  /\ Len(enc.data) = Len(enc.i)
                  /\ \A r \in Indices, c \in Indices, v \in ValuesWritten :
                        EncCount(r, c, v) = (IF r >= c THEN MemCount(r, c, v) ELSE 0)
             [] call.field = "pattern" -> enc.data = <<>>
             [] OTHER ->
                  /\ Len(enc.data) = Len(enc.i)
                  /\ \A r \in Indices, c \in Indices, v \in ValuesWritten :
                        EncCount(r, c, v) = (IF r >= c THEN MemRealCount(r, c, v) ELSE 0)

\* C9 witness: a compressed-row matrix with an entry above and an entry below
\* the diagonal was written as symmetric with no field: one entry went out.
C9_Witness ==
    /\ ReducedWrite
    /\ mem.kind = "csr"
    /\ call.field = "None"
    /\ \E k \in 1..Len(mem.i) : mem.i[k] < mem.j[k]
    /\ \E k \in 1..Len(mem.i) : mem.i[k] > mem.j[k]
    /\ Len(enc.i) = 1 /\ Len(enc.data) = 1

\* the last call wrote, as symmetric and without field conversion, the matrix
\* that mmread returned for a symmetric lower-triangle coordinate file
RoundTrip ==
    /\ file # NoFile
    /\ file.format = "coordinate" /\ file.symmetry = "symmetric" /\ LowerOnly(file)
    /\ Written
    /\ mem.kind = "coo"
    /\ enc.symmetry = "symmetric"
    /\ call.field = "None"

\* C10: generalizing the lower-triangle triplets E of a symmetric matrix and
\* then reducing to the lower triangle gives E again, as a multiset.
C10_SymmetryRoundTrip ==
    RoundTrip =>
        /\ Len(enc.j) = Len(enc.i)
        /\ Len(enc.data) = Len(enc.i)
        /\ Len(enc.i) = Len(file.body)
        /\ \A r \in Indices, c \in Indices, v \in ValuesWritten :
              EncCount(r, c, v) = BodyCount(r, c, v)

\* C10 witness: E holds an entry below the diagonal and a diagonal entry; the
\* read returned three entries and the write handed over two.
C10_Witness ==
    /\ RoundTrip
    /\ \E k \in 1..Len(file.body) : file.body[k].i > file.body[k].j
    /\ \E k \in 1..Len(file.body) : file.body[k].i = file.body[k].j
    /\ Len(mem.i) = 3
    /\ Len(enc.i) = 2

\* ------------------------------------------------- source and target claims
\* the last call read from a text stream
TextRead_called == call.op \in ReadOps /\ io.kind = "text"

\* the last call was a write to a text stream
TextWrite_called == call.op \in WriteOps /\ io.kind = "text"

\* the target is as it was handed in and the codec never saw it
TargetUntouched ==
    /\ cursor.opener = "none"
    /\ enc = NoEnc
    /\ io.content = NoText

\* the last call failed a check of its arguments that comes before the
\* target is opened: the symmetry of mmwrite, the shape of write_coo
ArgumentCheckFailed ==
    \/ /\ call.op = "mmwrite"
       /\ call.symmetry \notin ExplicitSymmetryArgs \cup {"AUTO", "None"}
       /\ ~call.find_symmetry
    \/ call.op = "write_coo" /\ call.shape_len # 2

\* a text stream is read through the wrapper: the codec gets, as bytes, the
\* very content a binary stream or a path would give it, and the read does
\* not fail on the kind of source
TextSourceAccepted ==
    TextRead_called =>
        /\ raised # "TypeError"
        /\ cursor.opener = "open_read_stream"
        /\ cursor.wrapped
        /\ cursor.content = io.content
        /\ cursor.header = ParseHeader(io.content).h
        /\ call.op = "read_header" => hdr = ParseHeader(io.content).h

\* C11 as stated: a text stream is accepted as a read source, wrapped so that
\* the codec gets the content as bytes, with the result a binary stream or a
\* path gives; as a write target every write operation rejects it with
\* TypeError before the codec sees it, and nothing is written.
C11_TextStream ==
    /\ TextSourceAccepted
    /\ TextWrite_called => (raised = "TypeError" /\ TargetUntouched)

\* C11 amended: as C11 for reading.  As a write target a text stream is
\* rejected by every write operation before the codec sees it, and nothing
\* is written: with TypeError, unless the check of an argument that comes
\* before the target is opened fails first (a symmetry outside the
\* enumeration in mmwrite, a shape not of length 2 in write_coo), which
\* raises ValueError.
C11_TextStreamAfterArguments ==
    /\ TextSourceAccepted
    /\ TextWrite_called =>
          /\ TargetUntouched
          /\ raised \in {"TypeError", "ValueError"}
          /\ raised = "ValueError" <=> ArgumentCheckFailed

\* C11 witness: a latin-1 text stream whose comment holds a byte outside
\* ASCII was read by mmread into a matrix with an entry.
C11_Witness ==
    /\ TextRead_called
    /\ call.op = "mmread"
    /\ io.encoding = "latin-1"
    /\ \E k \in 1..Len(io.content.comment) :
          \E n \in 1..Len(io.content.comment[k]) : io.content.comment[k][n] >= 128
    /\ raised = "none"
    /\ mem.kind = "coo"
    /\ Len(mem.data) > 0
    /\ cursor.wrapped

\* a source or target that is neither a path nor a stream
OtherSource == call.op \in ReadOps /\ io.kind = "other"
OtherTarget == call.op \in WriteOps /\ io.kind = "other"

\* mmwrite was given a value that is neither array-like nor sparse
UnknownMatrix == call.op = "mmwrite" /\ mem.kind = "unknown"

\* C12 as stated: a read source that is neither a path nor has read, a write
\* target that is neither a path nor has write, a text-mode write stream and
\* a value given to mmwrite that is no matrix each raise TypeError.
C12_UnsupportedKinds ==
    (OtherSource \/ OtherTarget \/ TextWrite_called \/ UnknownMatrix) =>
        raised = "TypeError"

\* C12 amended: an unsupported source raises TypeError; an unsupported
\* target or a text-mode write stream raises TypeError unless the check of
\* an argument fails first (ValueError); a value given to mmwrite that is no
\* matrix raises ValueError, not TypeError, after a supported target was
\* opened, and leaves the encoder uncalled.
C12_UnsupportedKindsByClass ==
    /\ OtherSource => (raised = "TypeError" /\ cursor.opener = "none")
    /\ (OtherTarget \/ TextWrite_called) =>
          /\ raised \in {"TypeError", "ValueError"}
          /\ raised = "ValueError" <=> ArgumentCheckFailed
          /\ cursor.opener = "none"
    /\ (UnknownMatrix /\ io.kind \notin {"other", "text"}) =>
          /\ raised = "ValueError"
          /\ enc = NoEnc
          /\ ~ArgumentCheckFailed =>
                cursor.opener \in {"open_write_file", "open_write_stream"}

\* C12 witness: mmwrite of a value that is no matrix, to a path: ValueError
\* after the file was opened for writing.
C12_Witness ==
    /\ UnknownMatrix
    /\ io.kind = "path"
    /\ call.symmetry = "AUTO"
    /\ raised = "ValueError"
    /\ cursor.opener = "open_write_file"
    /\ cursor.state = "open"
    /\ enc = NoEnc

\* mmwrite was asked to store complex values under a real or integer field
ComplexToReal ==
    /\ call.op = "mmwrite"
    /\ mem.kind \in MatrixKinds
    /\ mem.dtype \in ComplexDtypes
    /\ call.field \in {"real", "integer"}

\* C13 as stated: mmwrite asked for field real or integer with values that
\* have an imaginary part raises and hands nothing to the encoder.
C13_NeverTruncates ==
    (ComplexToReal /\ \E k \in 1..Len(mem.data) : mem.data[k].im # W(0)) =>
        (raised # "none" /\ enc = NoEnc)

\* C13 amended: mmwrite asked for field real or integer with complex values
\* raises only when the symmetry argument is invalid; otherwise the encoder
\* receives every written entry narrowed to its real part, under the dtype of
\* the field.
C13_ComplexNarrowed ==
    ComplexToReal =>
        /\ raised = (IF ArgumentCheckFailed THEN "ValueError" ELSE "none")
        /\ raised = "none" =>
              /\ enc.fn \in {"write_body_array", "write_body_coo", "write_body_csc"}
              /\ enc.dtype = field_to_dtype_get(call.field)
              /\ Len(enc.data) = Len(enc.i)
              /\ \A k \in 1..Len(enc.data) : enc.data[k].im = W(0)
              /\ \A r \in Indices, c \in Indices, v \in ValuesWritten :
                    EncCount(r, c, v) =
                        (IF mem.kind = "ndarray" \/ enc.symmetry = "general" \/ r >= c
                         THEN MemRealCount(r, c, v) ELSE 0)

\* C13 witness: a complex coordinate matrix with an imaginary part was
\* written with field real: the call returned and the encoder received the
\* real part alone.
C13_Witness ==
    /\ ComplexToReal
    /\ mem.kind = "coo"
    /\ call.field = "real"
    /\ raised = "none"
    /\ enc.dtype = "float64"
    /\ \E k \in 1..Len(mem.data) :
          /\ mem.data[k].im # W(0)
          /\ EncCount(mem.i[k], mem.j[k], RealPart(mem.data[k])) >= 1

\* mmwrite was given a dense array and a symmetry argument that names a
\* symmetry other than general, with no detection to replace it
DenseSymmetryRequested ==
    /\ call.op = "mmwrite"
    /\ mem.kind = "ndarray"
    /\ call.symmetry \in ExplicitSymmetryArgs \ {"general"}
    /\ ~call.find_symmetry

\* C14 as stated: mmwrite of a dense array with a requested symmetry other
\* than general raises, and no dense body goes out under a header whose
\* symmetry is not general.
C14_DenseSymmetryRaises ==
    /\ DenseSymmetryRequested => (raised # "none" /\ enc = NoEnc)
    /\ ~(Written /\ mem.kind = "ndarray" /\ enc.symmetry # "general")

\* C14 amended: mmwrite of a dense array with a requested symmetry other than
\* general raises only for a field without a storage type; otherwise the
\* header carries the requested symmetry and the dense encoder receives the
\* whole array, every cell on either side of the diagonal, with its values
\* converted to the field (field pattern converts nothing).
C14_DenseSymmetryWritten ==
    DenseSymmetryRequested =>
        /\ raised = (IF call.field = "bogus" THEN "ValueError" ELSE "none")
        /\ raised = "none" =>
              /\ enc.fn = "write_body_array"
              /\ enc.symmetry = NamedSymmetry(call.symmetry)
              /\ cursor.header.symmetry = NamedSymmetry(call.symmetry)
              /\ enc.shape = mem.shape
              /\ enc.i = mem.i /\ enc.j = mem.j
              /\ Len(enc.data) = Len(mem.data)
              /\ \A k \in 1..Len(mem.data) :
                    enc.data[k] = (IF call.field \in {"None", "pattern"}
                                   THEN mem.data[k] ELSE RealPart(mem.data[k]))

\* C14 witness: a dense array with a cell above the diagonal was written as
\* symmetric: the call returned and the dense encoder received that cell.
C14_Witness ==
    /\ DenseSymmetryRequested
    /\ call.symmetry = "symmetric"
    /\ raised = "none"
    /\ enc.fn = "write_body_array"
    /\ enc.symmetry = "symmetric"
    /\ \E k \in 1..Len(enc.i) : enc.i[k] < enc.j[k]

\* the last call wrote a sparse matrix with field pattern
SparsePatternWrite ==
    /\ Written
    /\ mem.kind \in SparseKinds
    /\ call.field = "pattern"

\* C15 as stated: a sparse matrix written with field pattern reaches the
\* encoder as an empty value buffer and its row/column structure unchanged.
C15_PatternKeepsStructure ==
    SparsePatternWrite =>
        /\ enc.data = <<>>
        /\ Len(enc.j) = Len(enc.i)
        /\ \A r \in Indices, c \in Indices : EncPosCount(r, c) = MemPosCount(r, c)

\* C15 amended: a sparse matrix written with field pattern reaches the
\* encoder as an empty value buffer; under symmetry general its row/column
\* structure is handed over unchanged, in stored order, and under any other
\* symmetry the structure is the one reduced to row >= col.
C15_PatternDropsValues ==
    SparsePatternWrite =>
        /\ enc.data = <<>>
        /\ enc.fn = (IF enc.symmetry = "general" /\ mem.kind \in CompressedKinds
                     THEN "write_body_csc" ELSE "write_body_coo")
        /\ enc.shape = mem.shape
        /\ Len(enc.j) = Len(enc.i)
        /\ enc.symmetry = "general" => (enc.i = mem.i /\ enc.j = mem.j)
        /\ \A r \in Indices, c \in Indices :
              EncPosCount(r, c) =
                  (IF enc.symmetry = "general" \/ r >= c THEN MemPosCount(r, c) ELSE 0)

\* C15 witness: a compressed-row matrix of two entries was written as general
\* with field pattern: both positions and no value were handed over.
C15_Witness ==
    /\ SparsePatternWrite
    /\ mem.kind = "csr"
    /\ Len(mem.data) = 2
    /\ enc.symmetry = "general"
    /\ enc.fn = "write_body_csc"
    /\ Len(enc.i) = 2
    /\ enc.data = <<>>

\* how often the position (r, c) occurs in the file's body
BodyPosCount(r, c) ==
    Cardinality({k \in 1..Len(file.body) : file.body[k].i = r /\ file.body[k].j = c})

\* the last call was a read that chooses the result by the file, and returned
DispatchCall ==
    /\ file # NoFile
    /\ call.op \in {"mmread", "read_array_or_coo"}
    /\ raised = "none"

\* C16: mmread and read_array_or_coo return a dense array exactly when the
\* header's format is array, whatever the field, the symmetry and the
\* arguments, and a coordinate result otherwise; the coordinate result of
\* mmread holds every off-diagonal position of a body under a symmetry once
\* more, mirrored; the dense result of an array file holds every cell the
\* body lists with the value listed and every mirrored cell as well, with
\* generalize_symmetry either way.
C16_ReadDispatch ==
    DispatchCall =>
        /\ mem.kind = (IF file.format = "array" THEN "ndarray"
                       ELSE IF call.op = "mmread" THEN "coo" ELSE "triplet")
        /\ (call.op = "mmread" /\ file.format = "coordinate") =>
              \A r \in Indices, c \in Indices :
                  MemPosCount(r, c) =
                      BodyPosCount(r, c)
                      + (IF r # c /\ file.symmetry # "general"
                         THEN BodyPosCount(c, r) ELSE 0)
        /\ file.format = "array" =>
              /\ mem.shape = file.shape
              /\ \A r \in Indices, c \in Indices :
                    /\ MemPosCount(r, c) =
                          (IF file.symmetry = "skew-symmetric" /\ r = c THEN 0 ELSE 1)
                    /\ ArrayCellListed(file.symmetry, r, c) =>
                          \A v \in ValuesSeen : MemCount(r, c, v) = BodyCount(r, c, v)

\* C16 witness: read_array_or_coo with generalize_symmetry=False on a
\* symmetric array file returned a dense array that holds a cell above the
\* diagonal, which the body does not list.
C16_Witness ==
    /\ DispatchCall
    /\ call.op = "read_array_or_coo"
    /\ ~call.generalize_symmetry
    /\ file.format = "array"
    /\ file.symmetry = "symmetric"
    /\ mem.kind = "ndarray"
    /\ \E k \in 1..Len(mem.i) : mem.i[k] < mem.j[k]

\* C17: mminfo returns (rows, cols, nnz, format, field, symmetry) of the
\* file's header, which are the fields its cursor parsed (the entry count of
\* an array file is rows * cols); no body call is made on the cursor, the
\* cursor is closed when mminfo returns, and nothing is read into memory.  A
\* source of no supported kind raises TypeError and returns nothing.
C17_MminfoHeaderOnly ==
    call.op = "mminfo" =>
        IF io.kind = "other"
        THEN raised = "TypeError" /\ ret = <<>> /\ cursor.opener = "none"
        ELSE /\ raised = "none"
             /\ ret = <<file.shape[1], file.shape[2],
                        IF file.format = "array" THEN W(MaxIdx * MaxIdx)
                        ELSE W(Len(file.body)),
                        file.format, file.field, file.symmetry>>
             /\ ret = <<cursor.header.nrows, cursor.header.ncols, cursor.header.nnz,
                        cursor.header.format, cursor.header.field,
                        cursor.header.symmetry>>
             /\ cursor.body_ops = 0
             /\ cursor.state = "closed"
             /\ mem = NoMatrix

\* C17 witness: mminfo on a text stream over a symmetric coordinate file of
\* one entry returned its six fields, with the cursor closed.
C17_Witness ==
    /\ call.op = "mminfo"
    /\ raised = "none"
    /\ io.kind = "text"
    /\ file.format = "coordinate"
    /\ file.symmetry = "symmetric"
    /\ Len(file.body) = 1
    /\ ret = <<W(MaxIdx), W(MaxIdx), W(1), "coordinate", "real", "symmetric">>
    /\ cursor.opener # "none"
    /\ cursor.state = "closed"

\* the enum value the last header construction was given for attr
ConstructionValue(attr) ==
    CASE attr = "object" -> call.object
      [] attr = "format" -> call.format
      [] attr = "field" -> call.field
      [] attr = "symmetry" -> call.symmetry

\* C18: whatever was constructed, assigned or parsed, each enum attribute of
\* the header is a lowercase literal of its enumeration; a value that is
\* valid up to letter case is accepted, at construction and on assignment,
\* and stored lowercase.
C18_CanonicalLowercase ==
    /\ hdr # NoHeader => \A attr \in EnumAttrs : hdr[attr] \in HeaderEnum(attr)
    /\ (call.op = "header"
        /\ \A attr \in EnumAttrs : Lower(ConstructionValue(attr)) \in HeaderEnum(attr)) =>
          /\ raised = "none"
          /\ \A attr \in EnumAttrs : hdr[attr] = Lower(ConstructionValue(attr))
    /\ (call.op = "setattr" /\ Lower(call.value) \in HeaderEnum(call.attr)) =>
          /\ raised = "none"
          /\ hdr[call.attr] = Lower(call.value)

\* C18 witness: a header was constructed with object Vector and then
\* assigned symmetry Hermitian: it holds vector and hermitian.
C18_Witness ==
    /\ call.op = "setattr"
    /\ call.attr = "symmetry" /\ call.value = "Hermitian"
    /\ raised = "none"
    /\ hdr.symmetry = "hermitian"
    /\ hdr.object = "vector"

\* the last call gave an enum attribute a value outside its enumeration
InvalidEnumValue ==
    \/ /\ call.op = "header"
       /\ \E attr \in EnumAttrs : Lower(ConstructionValue(attr)) \notin HeaderEnum(attr)
    \/ /\ call.op = "setattr"
       /\ Lower(call.value) \notin HeaderEnum(call.attr)

\* C19: a header construction or an assignment raises ValueError exactly when
\* it gives an enum attribute a value outside its enumeration; a construction
\* that raises makes no header, and an assignment that raises leaves every
\* attribute of the header as it was.
C19_InvalidEnumRaises ==
    /\ [](call.op \in {"header", "setattr"} =>
             /\ raised = (IF InvalidEnumValue THEN "ValueError" ELSE "none")
             /\ (call.op = "header" /\ raised = "ValueError") => hdr = NoHeader)
    /\ [][(call'.op = "setattr" /\ raised' = "ValueError") => hdr' = hdr]_vars

\* C19 witness: the assignment of foo to the field of a header raised
\* ValueError and the header still holds a field of the enumeration.
C19_Witness ==
    /\ call.op = "setattr"
    /\ call.attr = "field" /\ call.value = "foo"
    /\ raised = "ValueError"
    /\ hdr # NoHeader
    /\ hdr.field \in HeaderFields

\* this step is a read_header that returns, of the text that the write_header
\* before it wrote for the header held
ReadsBack ==
    /\ call.op = "write_header" /\ raised = "none"
    /\ call'.op = "read_header" /\ raised' = "none"

TokenBeyondInt64 ==
    \E k \in 1..Len(io.content.dims) :
        io.content.dims[k] \in {Two63Numeral, Two64Numeral}

\* the header text read has a banner token of no enumeration
MalformedBanner == io.content.banner[3] \notin HeaderFields

\* C21: a read of a header text raises OverflowError exactly when the banner
\* is well formed and rows, cols or nnz is a numeral beyond the 64-bit signed
\* range (2^63 or more); a malformed banner token raises ValueError instead;
\* nothing is returned in either case, and 2^63 - 1 is read as it is.
C21_DimensionOverflow ==
    call.op \in ReadOps =>
        /\ raised = (IF MalformedBanner THEN "ValueError"
                     ELSE IF TokenBeyondInt64 THEN "OverflowError" ELSE "none")
        /\ raised # "none" =>
              (mem = NoMatrix /\ hdr = NoHeader /\ ret = <<>> /\ cursor = NoCursor)
        /\ (raised = "none" /\ call.op = "read_header") =>
              (hdr.nrows = io.content.dims[1] /\ hdr.ncols = io.content.dims[2])

\* C21 witness: read_coo of a file whose rows token is 2^63 raised
\* OverflowError, the other tokens being in range.
C21_Witness ==
    /\ call.op = "read_coo"
    /\ io.content.dims[1] = Two63Numeral
    /\ io.content.dims[2] = MaxInt64
    /\ io.content.dims[3] = W(1)
    /\ ~MalformedBanner
    /\ raised = "OverflowError"
    /\ mem = NoMatrix

\* the number of parsed entries off the diagonal
OffDiagonalParsed ==
    Cardinality({k \in 1..Len(file.body) : file.body[k].i # file.body[k].j})

\* C22: the row, column and value sequences of a coordinate result have one
\* length; it is the header's nnz, plus the number of parsed off-diagonal
\* entries when the read generalizes under a symmetry other than general,
\* hence between nnz and 2 * nnz.
C22_CommonLength ==
    CooResult =>
        /\ Len(mem.i) = Len(mem.data)
        /\ Len(mem.j) = Len(mem.data)
        /\ W(Len(file.body)) = Header(file).nnz
        /\ Len(mem.data) =
              Len(file.body)
              + (IF GeneralizingCall /\ file.symmetry # "general"
                 THEN OffDiagonalParsed ELSE 0)
        /\ Len(mem.data) >= Len(file.body)
        /\ Len(mem.data) <= 2 * Len(file.body)

\* C22 witness: a generalized read of a hermitian body with one diagonal and
\* one off-diagonal entry returned three entries.
C22_Witness ==
    /\ CooResult
    /\ GeneralizingCall
    /\ file.symmetry = "hermitian"
    /\ Len(file.body) = 2
    /\ OffDiagonalParsed = 1
    /\ Len(mem.i) = 3 /\ Len(mem.j) = 3 /\ Len(mem.data) = 3

\* the last call read the body of a file whose field, with the long prefix
\* the call asked for, is no key of the field/type table
UnknownFieldRead ==
    /\ file # NoFile
    /\ call.op \in {"read_array", "read_coo", "read_array_or_coo", "mmread"}
    /\ LongKey(call.long_type, file.field) \notin DOMAIN _field_to_dtype

\* C23: a field string outside the field/type table raises an invalid-field
\* error wherever it reaches the type resolution, on the read paths as in
\* _apply_field, and no matrix of a default storage type is produced.
C23_FailsClosed ==
    /\ UnknownFieldRead => (raised = "ValueError" /\ mem = NoMatrix)
    /\ (call.op = "mmwrite" /\ mem.kind \in MatrixKinds /\ call.field = "bogus") =>
          (raised = "ValueError" /\ enc = NoEnc)

\* the operations that make one body call, and those that only touch the
\* header
BodyOps ==
    {"read_array", "read_coo", "read_array_or_coo", "mmread",
     "write_array", "write_coo", "mmwrite"}
HeaderOnlyOps == {"read_header", "mminfo", "write_header"}

\* the native open calls of the reading and of the writing operations
ReadOpeners == {"open_read_file", "open_read_stream"}
WriteOpeners == {"open_write_file", "open_write_stream"}

\* C24: in any sequence of calls, the cursor of a call is one that the call
\* opened itself (a read cursor for a read, a write cursor for a write, none
\* when the call failed before the open); it has received at most one body
\* call, exactly one when a body operation returned and none in a header
\* operation, and a cursor that received its body call is consumed.
C24_CursorSingleUse ==
    /\ cursor.body_ops <= 1
    /\ cursor.body_ops = 1 => cursor.state = "closed"
    /\ call.op # "none" =>
          /\ cursor.opener \in
                {"none"} \cup (IF call.op \in ReadOps THEN ReadOpeners ELSE WriteOpeners)
          /\ (call.op \in BodyOps /\ raised = "none") => cursor.body_ops = 1
          /\ call.op \in HeaderOnlyOps => cursor.body_ops = 0
          /\ (call.op \in HeaderOnlyOps /\ raised = "none") => cursor.state = "closed"

\* C24 witness: mmwrite returned after write_header and mminfo had each
\* opened and closed a cursor on the same stream: the cursor held is a write
\* cursor with one body call.
C24_Witness ==
    /\ call.op = "mmwrite"
    /\ raised = "none"
    /\ ret # <<>>
    /\ cursor.opener \in WriteOpeners
    /\ cursor.body_ops = 1
    /\ cursor.state = "closed"

\* C25: when a call raises, the cursor it opened, if any, has been released
\* by the time the error reaches the caller.
C25_HandleReleased ==
    (call.op # "none" /\ raised # "none") => cursor.state \in {"none", "closed"}

\* C26 as stated: a CSR or CSC input goes to the compressed encoder as it
\* is, with the row-major flag set exactly for CSR; any other sparse input
\* goes to the coordinate encoder; a dense array goes to the array encoder.
C26_DispatchByRepresentation ==
    Written =>
        /\ enc.fn = (CASE mem.kind = "ndarray" -> "write_body_array"
                       [] mem.kind \in {"csr", "csc"} -> "write_body_csc"
                       [] OTHER -> "write_body_coo")
        /\ enc.is_csr = (mem.kind = "csr")

\* C26 amended: a dense array goes to the array encoder; a CSR or CSC input
\* goes to the compressed encoder as it is stored, with the row-major flag
\* set exactly for CSR, when the symmetry written is general, and to the
\* coordinate encoder, converted and reduced, when it is not; any other
\* sparse input goes to the coordinate encoder; one encoder is called when
\* mmwrite returns and none when it raises.
C26_DispatchBySymmetryToo ==
    /\ Written =>
          /\ enc.fn = (CASE mem.kind = "ndarray" -> "write_body_array"
                         [] mem.kind \in {"csr", "csc"} /\ enc.symmetry = "general" ->
                               "write_body_csc"
                         [] OTHER -> "write_body_coo")
          /\ enc.is_csr = (mem.kind = "csr" /\ enc.symmetry = "general")
          /\ enc.fn = "write_body_csc" =>
                (enc.shape = mem.shape /\ enc.i = mem.i /\ enc.j = mem.j)
          /\ cursor.body_ops = 1
    /\ (call.op = "mmwrite" /\ raised # "none") =>
          (enc = NoEnc /\ cursor.body_ops = 0)

\* C26 witness: a compressed-column matrix of two entries was written as
\* general by the compressed encoder, the row-major flag not set.
C26_Witness ==
    /\ Written
    /\ mem.kind = "csc"
    /\ Len(mem.data) = 2
    /\ enc.symmetry = "general"
    /\ enc.fn = "write_body_csc"
    /\ ~enc.is_csr
    /\ enc.i = mem.i /\ enc.j = mem.j

\* the parallelism the running call was to hand to the native open: the
\* argument if one was given, the PARALLELISM read at lines 134-135 if not
ParallelismDue ==
    IF frame.argument = <<>> THEN frame.seen ELSE frame.argument[1]

\* the running call has opened its cursor
CursorOpened ==
    frame.op # "none" /\ call.op # "none" /\ cursor.opener # "none"

\* C27: the parallelism handed to the native open call is the argument given
\* to the cursor getter, unchanged (0 included, never clamped), and with no
\* argument it is the value PARALLELISM had when the call read it, whatever
\* PARALLELISM is assigned after that read.
C27_ParallelismHanded == CursorOpened => cursor.parallelism = ParallelismDue

\* C27 witness: a call with no argument has opened its cursor with the value
\* it read, and PARALLELISM holds another value by now
C27_Witness ==
    /\ CursorOpened
    /\ frame.argument = <<>>
    /\ frame.seen = 64
    /\ cursor.parallelism = 64
    /\ PARALLELISM = 0

\* the position in the body of the k-th parsed entry off the diagonal
OffDiagonalSource(k) ==
    CHOOSE s \in 1..Len(file.body) :
        /\ file.body[s].i # file.body[s].j
        /\ Cardinality({t \in 1..s : file.body[t].i # file.body[t].j}) = k

\* the value of the mirror of an entry of value v under the file's symmetry
MirrorValue(v) ==
    IF file.symmetry = "skew-symmetric" THEN NegV(v)
    ELSE IF file.symmetry = "hermitian" THEN ConjV(v)
    ELSE v

\* the last call returned a generalized read of a file that is not general
GeneralizedResult ==
    GeneralizingCall /\ file.symmetry # "general" /\ raised = "none"

\* C28: in the result of a generalized coordinate read the first nnz
\* positions of rows, columns and values are the parsed entries, in their
\* order and with their values (under skew-symmetric and hermitian too), and
\* the mirrored entries follow them in the order of their source entries.
C28_ParsedEntriesKept ==
    GeneralizedResult =>
        LET n == Len(file.body)
        IN  /\ Len(mem.i) = n + OffDiagonalParsed
            /\ Len(mem.j) = n + OffDiagonalParsed
            /\ Len(mem.data) = n + OffDiagonalParsed
            /\ \A k \in 1..n :
                  /\ mem.i[k] = file.body[k].i
                  /\ mem.j[k] = file.body[k].j
                  /\ mem.data[k] = file.body[k].v
            /\ \A k \in 1..OffDiagonalParsed :
                  /\ mem.i[n + k] = file.body[OffDiagonalSource(k)].j
                  /\ mem.j[n + k] = file.body[OffDiagonalSource(k)].i
                  /\ mem.data[n + k] = MirrorValue(file.body[OffDiagonalSource(k)].v)

\* C28 witness: a skew-symmetric body of two entries off the diagonal, one
\* in each triangle, was generalized: four entries, the parsed values kept in
\* front and the negated copies behind, in the order of their sources
C28_Witness ==
    /\ GeneralizedResult
    /\ file.symmetry = "skew-symmetric"
    /\ Len(file.body) = 2
    /\ file.body[1].i < file.body[1].j
    /\ file.body[2].i > file.body[2].j
    /\ file.body[1].v # NegV(file.body[1].v)
    /\ file.body[1].v # file.body[2].v
    /\ Len(mem.data) = 4
    /\ mem.data[1] = file.body[1].v
    /\ mem.data[3] = NegV(file.body[1].v)
    /\ mem.data[4] = NegV(file.body[2].v)

\* C29: for a symmetric, skew-symmetric or hermitian file the triplets a
\* generalized read returns are closed, as a multiset, under the mirror map:
\* off the diagonal (i,j,v) occurs as often as (j,i,s(v)), with s the identity,
\* the negation or the conjugation, whatever triangle was parsed.
C29_MirrorClosed ==
    GeneralizedResult =>
        \A r \in Indices, c \in Indices, v \in ValuesSeen :
            r # c => MemCount(r, c, v) = MemCount(c, r, MirrorValue(v))

\* C29 witness: a skew-symmetric body with one entry in each triangle was
\* generalized; the upper entry and its negated mirror are both returned
C29_Witness ==
    /\ GeneralizedResult
    /\ file.symmetry = "skew-symmetric"
    /\ Len(file.body) = 2
    /\ file.body[1].i < file.body[1].j
    /\ file.body[2].i > file.body[2].j
    /\ file.body[1].v # NegV(file.body[1].v)
    /\ MemCount(file.body[1].i, file.body[1].j, file.body[1].v) >= 1
    /\ MemCount(file.body[1].j, file.body[1].i, NegV(file.body[1].v)) >= 1

\* the last call was mmwrite with a symmetry string that, compared without
\* regard to case, is none of the four symmetries
SymmetryOutsideEnumeration ==
    /\ call.op = "mmwrite"
    /\ call.symmetry # "None"
    /\ Lower(call.symmetry) \notin Symmetries

\* C30 as stated: mmwrite with a symmetry string outside the enumeration and
\* write_coo with a shape whose length is not 2 raise ValueError before a
\* write cursor is opened, and the target is left untouched.
C30_ValidationBeforeOpen ==
    (SymmetryOutsideEnumeration \/ (call.op = "write_coo" /\ call.shape_len # 2))
        => (raised = "ValueError" /\ TargetUntouched)

\* C30: mmwrite with a symmetry string other than "AUTO" outside the
\* enumeration, when find_symmetry is not set, and write_coo with a shape
\* whose length is not 2 raise ValueError before a write cursor is opened, and
\* the target is left untouched.
C30_ValidationBeforeOpenUnlessDetected ==
    ArgumentCheckFailed => (raised = "ValueError" /\ TargetUntouched)

\* C30 witness: mmwrite to a path with symmetry "bogus" and no detection
\* raised ValueError with no cursor opened
C30_Witness ==
    /\ call.op = "mmwrite"
    /\ call.symmetry = "bogus"
    /\ ~call.find_symmetry
    /\ io.kind = "path"
    /\ mem.kind = "coo"
    /\ raised = "ValueError"
    /\ TargetUntouched

====
